---- MODULE Spec2Model ----
(***************************************************************************)
(* Request signing and signature verification of the haozpay SDK.          *)
(*                                                                         *)
(* Text is modelled as Go models it: a string is a sequence of bytes       *)
(* (numbers 0..255), compared byte by byte.                                *)
(***************************************************************************)
EXTENDS Integers, Sequences, FiniteSets, TLC

VARIABLES
    params,      \* BuildSignString: the map[string]interface{} passed in
    canonDone,   \* whether BuildSignString has returned
    signString,  \* the string BuildSignString returned
    signKeys,    \* the keys written to the builder, in the order written
    rawKey,      \* privateKeyEncryptRaw: the *rsa.PrivateKey passed in
    rawData,     \* privateKeyEncryptRaw: the data passed in
    rawDone,     \* whether privateKeyEncryptRaw has returned
    rawRet,      \* what it returned, and the buffers it built on the way
    pemBody,     \* the base64 key body a key text was written from
    pemText,     \* parsePrivateKey: the key text passed in
    pemDone,     \* whether parsePrivateKey has returned
    pemRet,      \* what it returned, the normalized text and the block bytes
    genParams,   \* GenerateSign: the parameter map passed in
    genKeyStr,   \* GenerateSign: the private key text passed in
    genDone,     \* whether GenerateSign has returned
    genRet,      \* the string and the error it returned
    stdPriv,     \* the private key text generateHaozPaySignature is given
    stdPub,      \* the public key text verifyHaozPaySignature is given
    stdParams,   \* the parameters signed
    stdSigned,   \* whether generateHaozPaySignature has returned
    stdSign,     \* the string and the error it returned
    vParams,     \* the parameters verified
    vSignature,  \* the signature string verified
    vDone,       \* whether verifyHaozPaySignature has returned
    vErr,        \* the error it returned, "" for nil
    cfg,         \* the client's Config: MerchantNo, PrivateKey, RetryCount
    pc,          \* where the PaymentService operation stands
    path,        \* the path the operation posts to
    haozReq,     \* the *HaozPayRequest the operation set as the request body
    attempt,     \* the attempts resty has made for the request
    wire,        \* the bodies handed to the transport, in order
    opErr,       \* the error the operation returned, "" for nil
    response,    \* the response of the last attempt, if it brought one
    opRet,       \* the error value the operation returned
    client,      \* the *Client NewClient returned
    newErr,      \* the error NewClient returned
    goCall,      \* for each goroutine, the call it makes
    goPc,        \* where the goroutine stands in its call
    goKeys,      \* the sorted keys of its map
    goIdx,       \* the index of its loop over the sorted keys, from 1
    goFrame,     \* the address of the values the call allocated
    heap,        \* at each address, a builder and a request object
    goRet,       \* what the call returned
    goAlone,     \* what the same call returns when nothing runs beside it
    overlapped   \* some step was taken while another call was under way

canonVars == <<params, canonDone, signString, signKeys>>
rawVars == <<rawKey, rawData, rawDone, rawRet>>
pemVars == <<pemBody, pemText, pemDone, pemRet>>
genVars == <<genParams, genKeyStr, genDone, genRet>>
clientVars == <<cfg, pc, path, haozReq, attempt, wire, opErr, response, opRet,
               client, newErr>>
goVars == <<goCall, goPc, goKeys, goIdx, goFrame, heap, goRet, goAlone, overlapped>>
stdVars == <<stdPriv, stdPub, stdParams, stdSigned, stdSign,
             vParams, vSignature, vDone, vErr>>

----------------------------------------------------------------------------
(* Byte strings *)

\* the bytes of the literals the source uses
StrSign == <<115, 105, 103, 110>>          \* "sign"
StrTrue == <<116, 114, 117, 101>>          \* "true"
StrFalse == <<102, 97, 108, 115, 101>>     \* "false"
ChEq == <<61>>                             \* "="
ChAmp == <<38>>                            \* "&"
ChMinus == <<45>>                          \* "-"

\* Go's string comparison a < b: byte-wise lexicographic
RECURSIVE StrLess(_, _)
StrLess(a, b) ==
    IF b = <<>> THEN FALSE
    ELSE IF a = <<>> THEN TRUE
    ELSE IF Head(a) # Head(b) THEN Head(a) < Head(b)
    ELSE StrLess(Tail(a), Tail(b))

\* the white space strings.TrimSpace cuts (the one-byte code points)
IsSpace(c) == c \in {9, 10, 11, 12, 13, 32}

RECURSIVE TrimLeft(_)
TrimLeft(s) ==
    IF s # <<>> /\ IsSpace(Head(s)) THEN TrimLeft(Tail(s)) ELSE s

RECURSIVE TrimRight(_)
TrimRight(s) ==
    IF s # <<>> /\ IsSpace(s[Len(s)]) THEN TrimRight(SubSeq(s, 1, Len(s) - 1)) ELSE s

\* strings.TrimSpace
TrimSpace(s) == TrimRight(TrimLeft(s))

\* the decimal digits of n >= 0, fmt's %d
RECURSIVE Digits(_)
Digits(n) ==
    IF n < 10 THEN <<48 + n>> ELSE Digits(n \div 10) \o <<48 + (n % 10)>>

FormatInt(n) == IF n < 0 THEN ChMinus \o Digits(0 - n) ELSE Digits(n)

----------------------------------------------------------------------------
(* interface{} values and fmt.Sprintf("%v", value) *)

Nil == [t |-> "nil"]
StrV(s) == [t |-> "string", v |-> s]
IntV(n) == [t |-> "int", v |-> n]
BoolV(b) == [t |-> "bool", v |-> b]

\* fmt.Sprintf("%v", value) for a string, an int or a bool
SprintfV(value) ==
    CASE value.t = "string" -> value.v
      [] value.t = "int" -> FormatInt(value.v)
      [] value.t = "bool" -> (IF value.v THEN StrTrue ELSE StrFalse)

----------------------------------------------------------------------------
(* sort.Strings *)

\* s with x inserted before the first element that is not less than x
RECURSIVE InsertSorted(_, _)
InsertSorted(s, x) ==
    IF s = <<>> THEN <<x>>
    ELSE IF StrLess(Head(s), x) THEN <<Head(s)>> \o InsertSorted(Tail(s), x)
    ELSE <<x>> \o s

RECURSIVE SortFrom(_, _)
SortFrom(done, rest) ==
    IF rest = <<>> THEN done ELSE SortFrom(InsertSorted(done, Head(rest)), Tail(rest))

UnsortedStrings(keys) == keys

\* sort.Strings(keys): keys in ascending order of Go's string comparison
SortStrings(keys) == SortFrom(<<>>, keys)

----------------------------------------------------------------------------
(* BuildSignString *)

NoTrimSkips(key, value) ==
    ~(key = StrSign \/ value = Nil) /\ SprintfV(value) # <<>>

\* the loop body's two `continue` tests, negated: the entry is written
Survives(key, value) ==
    /\ ~(key = StrSign \/ value = Nil)
    /\ TrimSpace(SprintfV(value)) # <<>>

\* one pass of the loop body, lines 35-50: what the builder holds after it,
\* and the keys written
WriteEntry(p, key, acc) ==
    IF Survives(key, p[key])
    THEN [sb |-> acc.sb \o key \o ChEq \o SprintfV(p[key]) \o ChAmp,
          keys |-> Append(acc.keys, key)]
    ELSE acc

\* the loop over the sorted keys
RECURSIVE WriteEntries(_, _, _)
WriteEntries(p, keys, acc) ==
    IF keys = <<>> THEN acc
    ELSE WriteEntries(p, Tail(keys), WriteEntry(p, Head(keys), acc))

KeepLast(result) == result

\* lines 53-56: the last "&" is cut off a result that is not empty
DropLast(result) ==
    IF Len(result) > 0 THEN SubSeq(result, 1, Len(result) - 1) ELSE result

\* BuildSignString(params) when ranging over the map yields the keys in the
\* order iter; .str is the string returned
BuildSignStringRun(p, iter) ==
    IF DOMAIN p = {} THEN [str |-> <<>>, keys |-> <<>>]
    ELSE LET keys == SortStrings(iter)
             w == WriteEntries(p, keys, [sb |-> <<>>, keys |-> <<>>])
         IN  [str |-> DropLast(w.sb), keys |-> w.keys]

----------------------------------------------------------------------------
(* The parameter sets explored *)

MaxParams == 4

ParamKeys ==
    { <<97>>, <<98>>, <<99>>, <<66>>, StrSign }
    \* "a", "b", "c", "B", "sign"

ParamValues ==
    { Nil, StrV(<<>>), StrV(<<32, 10>>), StrV(<<49>>), StrV(<<120>>), IntV(-12) }
    \* nil, "", " \n", "1", "x", -12

ParamSets ==
    UNION { [ks -> ParamValues] :
              ks \in { s \in SUBSET ParamKeys : Cardinality(s) <= MaxParams } }

\* the sequences that hold every element of set s exactly once
RECURSIVE Orders(_)
Orders(s) ==
    IF s = {} THEN { <<>> }
    ELSE UNION { { <<x>> \o o : o \in Orders(s \ {x}) } : x \in s }

----------------------------------------------------------------------------
(* Specification of the canonical serializer *)

\* the map {"sign": "x", "a": "1", "b": "", "c": nil}
ExampleParams ==
    (StrSign :> StrV(<<120>>)) @@ (<<97>> :> StrV(<<49>>))
      @@ (<<98>> :> StrV(<<>>)) @@ (<<99>> :> Nil)

CanonInit ==
    /\ params \in ParamSets
    /\ canonDone = FALSE
    /\ signString = <<>>
    /\ signKeys = <<>>

\* a call BuildSignString(params); Go ranges over the map in any order
CallBuildSignString ==
    /\ ~canonDone
    /\ canonDone' = TRUE
    /\ \E iter \in Orders(DOMAIN params) :
          LET run == BuildSignStringRun(params, iter)
          IN  /\ signString' = run.str
              /\ signKeys' = run.keys
    /\ UNCHANGED params

\* the serializer at rest, while another component is exercised
CanonIdle ==
    /\ params = <<>>
    /\ canonDone = FALSE
    /\ signString = <<>>
    /\ signKeys = <<>>

----------------------------------------------------------------------------
(* Byte buffers and big.Int *)

\* value bound to the parameter of F, worked out once however often F uses it
Bind(value, F(_)) == CHOOSE r \in { F(v) : v \in {value} } : TRUE

\* make([]byte, n) filled with b
Fill(n, b) == [i \in 1..n |-> b]

\* new(big.Int).SetBytes(buf): a big.Int is kept as its big-endian bytes
\* without leading zero bytes, which is also what Bytes() returns
SetBytes(buf) ==
    LET nz == { i \in 1..Len(buf) : buf[i] # 0 }
    IN  IF nz = {} THEN <<>>
        ELSE SubSeq(buf, CHOOSE i \in nz : \A j \in nz : i <= j, Len(buf))

Bytes(x) == x

(***************************************************************************)
(* RSA keys.  The arithmetic of a real modulus is out of reach of the      *)
(* model checker, so modular exponentiation is modelled by what the code   *)
(* relies on: with the private exponent it is a permutation of the blocks  *)
(* of Size bytes, with the public exponent it is the inverse permutation.  *)
(* The permutation of key (mul, add) maps every byte b of the block to     *)
(* (b * mul + add) mod 256, mul odd; inv is the inverse of mul mod 256.    *)
(***************************************************************************)
RSAKey(id, size, mul, inv, add) ==
    [N |-> [id |-> id, size |-> size],
     D |-> [private |-> TRUE, mul |-> mul, add |-> add],
     E |-> [private |-> FALSE, mul |-> inv, add |-> add]]

\* privateKey.Size() / publicKey.Size(): the byte length of the modulus
Size(key) == key.N.size

\* &privateKey.PublicKey
PublicKey(key) == [N |-> key.N, E |-> key.E]

\* new(big.Int).Exp(x, y, n)
Exp(x, y, n) ==
    Bind(Fill(n.size - Len(x), 0) \o x, LAMBDA block :
    Bind([i \in 1..n.size |->
            IF y.private THEN (block[i] * y.mul + y.add) % 256
            ELSE ((block[i] + 256 - y.add) * y.mul) % 256],
         LAMBDA out : SetBytes(out)))

----------------------------------------------------------------------------
(* privateKeyEncryptRaw *)

TooLong == "data too long for the RSA key"

LimitTen(k) == k - 10
LimitThree(k) == k - 3

\* the greatest len(data) the length check lets through
DataLimit(k) == k - 11

BlockType2(k, data) ==
    LET psLen == k - 3 - Len(data)
    IN  [i \in 1..k |->
           LET idx == i - 1
           IN  IF idx = 0 THEN 0
               ELSE IF idx = 1 THEN 2
               ELSE IF idx < 2 + psLen THEN 255
               ELSE IF idx = 2 + psLen THEN 0
               ELSE data[idx - (3 + psLen) + 1]]

BlockLeadingFF(k, data) ==
    LET psLen == k - 3 - Len(data)
    IN  [i \in 1..k |->
           LET idx == i - 1
           IN  IF idx = 0 THEN 255
               ELSE IF idx = 1 THEN 1
               ELSE IF idx < 2 + psLen THEN 255
               ELSE IF idx = 2 + psLen THEN 0
               ELSE data[idx - (3 + psLen) + 1]]

\* the buffer em as lines 111-121 fill it; idx is the index into the slice
BlockType1(k, data) ==
    LET psLen == k - 3 - Len(data)
    IN  [i \in 1..k |->
           LET idx == i - 1
           IN  IF idx = 0 THEN 0
               ELSE IF idx = 1 THEN 1
               ELSE IF idx < 2 + psLen THEN 255
               ELSE IF idx = 2 + psLen THEN 0
               ELSE data[idx - (3 + psLen) + 1]]

NoOffsetCopy(k, cBytes) == cBytes \o Fill(k - Len(cBytes), 0)

\* encrypted := make([]byte, k); copy(encrypted[k-len(cBytes):], cBytes)
LeftPadCopy(k, cBytes) == Fill(k - Len(cBytes), 0) \o cBytes

\* privateKeyEncryptRaw(privateKey, data): the bytes and the error returned,
\* and the buffer em and the number c it computed
privateKeyEncryptRaw(privateKey, data) ==
    LET k == Size(privateKey)
    IN  IF Len(data) > DataLimit(k)
        THEN [bytes |-> <<>>, err |-> TooLong, em |-> <<>>, c |-> <<>>]
        ELSE Bind(BlockType1(k, data), LAMBDA em :
             Bind(Exp(SetBytes(em), privateKey.D, privateKey.N), LAMBDA c :
                  [bytes |-> LeftPadCopy(k, Bytes(c)), err |-> "",
                   em |-> em, c |-> c]))

----------------------------------------------------------------------------
(* The keys and data explored *)

\* key pairs of several modulus lengths; the permutation of the keys whose
\* add is 0 sends the leading 0x00 of a block to 0x00, so that c has fewer
\* significant bytes than the modulus
RSAKeys ==
    { RSAKey(1, 8, 3, 171, 9), RSAKey(2, 11, 5, 205, 0),
      RSAKey(3, 12, 3, 171, 9), RSAKey(4, 14, 7, 183, 0),
      RSAKey(5, 14, 9, 57, 255), RSAKey(6, 62, 11, 163, 1),
      RSAKey(11, 61, 7, 183, 2),
      RSAKey(7, 75, 13, 197, 0), RSAKey(8, 75, 3, 171, 77),
      RSAKey(9, 256, 5, 205, 33), RSAKey(10, 256, 1, 1, 0) }

MaxDataLen == 3

\* the byte strings of length n over the bytes in bs
RECURSIVE BytesOfLen(_, _)
BytesOfLen(n, bs) ==
    IF n = 0 THEN { <<>> }
    ELSE { <<b>> \o t : b \in bs, t \in BytesOfLen(n - 1, bs) }

\* short data, a 64-byte hex digest, and data at the limit of a 256-byte key
RawDatas ==
    UNION { BytesOfLen(n, {0, 97, 255}) : n \in 0..MaxDataLen }
      \cup { Fill(64, 102), Fill(245, 49), Fill(246, 49) }

----------------------------------------------------------------------------
(* Specification of the raw private-key transform *)

RawInit ==
    /\ rawKey \in RSAKeys
    /\ rawData \in RawDatas
    /\ rawDone = FALSE
    /\ rawRet = [bytes |-> <<>>, err |-> "", em |-> <<>>, c |-> <<>>]

CallPrivateKeyEncryptRaw ==
    /\ ~rawDone
    /\ rawDone' = TRUE
    /\ rawRet' = privateKeyEncryptRaw(rawKey, rawData)
    /\ UNCHANGED <<rawKey, rawData>>

\* the transform at rest, while another component is exercised
RawIdle ==
    /\ rawKey = CHOOSE key \in RSAKeys : key.N.id = 1
    /\ rawData = <<>>
    /\ rawDone = FALSE
    /\ rawRet = [bytes |-> <<>>, err |-> "", em |-> <<>>, c |-> <<>>]

----------------------------------------------------------------------------
(* encoding/base64, StdEncoding *)

ChPad == <<61>>

\* the alphabet: A-Z, a-z, 0-9, +, /
B64Char(v) ==
    IF v < 26 THEN 65 + v
    ELSE IF v < 52 THEN 97 + (v - 26)
    ELSE IF v < 62 THEN 48 + (v - 52)
    ELSE IF v = 62 THEN 43
    ELSE 47

\* the value of a character of the alphabet, -1 for any other byte
B64Value(c) ==
    IF c >= 65 /\ c <= 90 THEN c - 65
    ELSE IF c >= 97 /\ c <= 122 THEN c - 97 + 26
    ELSE IF c >= 48 /\ c <= 57 THEN c - 48 + 52
    ELSE IF c = 43 THEN 62
    ELSE IF c = 47 THEN 63
    ELSE -1

\* base64.StdEncoding.EncodeToString(src)
EncodeToString(src) ==
    LET n == Len(src)
        At(i) == IF i <= n THEN src[i] ELSE 0
    IN  [j \in 1..(4 * ((n + 2) \div 3)) |->
           LET g == (j - 1) \div 4
               pos == (j - 1) % 4
               b0 == At(3 * g + 1)
               b1 == At(3 * g + 2)
               b2 == At(3 * g + 3)
           IN  IF pos = 0 THEN B64Char(b0 \div 4)
               ELSE IF pos = 1 THEN B64Char((b0 % 4) * 16 + (b1 \div 16))
               ELSE IF pos = 2
                    THEN IF 3 * g + 2 > n THEN ChPad[1]
                         ELSE B64Char((b1 % 16) * 4 + (b2 \div 64))
               ELSE IF 3 * g + 3 > n THEN ChPad[1]
                    ELSE B64Char(b2 % 64)]

NotNewline(c) == c \notin {10, 13}

\* base64.StdEncoding.DecodeString(s): "\r" and "\n" are skipped; the
\* characters come in groups of four; "=" may only end the last group, as "="
\* or "=="; the bits of the last character that fall outside the decoded
\* bytes are not looked at (the encoding is not Strict)
DecodeString(s) ==
    Bind(SelectSeq(s, NotNewline), LAMBDA t :
      LET n == Len(t)
          pad == IF n >= 4 /\ n % 4 = 0 /\ t[n] = ChPad[1]
                 THEN (IF t[n - 1] = ChPad[1] THEN 2 ELSE 1)
                 ELSE 0
          wellFormed == /\ n % 4 = 0
                        /\ \A i \in 1..(n - pad) : B64Value(t[i]) >= 0
          V(i) == IF i > n - pad THEN 0 ELSE B64Value(t[i])
      IN  IF ~wellFormed THEN [bytes |-> <<>>, ok |-> FALSE]
          ELSE [bytes |->
                  [j \in 1..(3 * (n \div 4) - pad) |->
                     LET g == (j - 1) \div 3
                         r == (j - 1) % 3
                         v0 == V(4 * g + 1)
                         v1 == V(4 * g + 2)
                         v2 == V(4 * g + 3)
                         v3 == V(4 * g + 4)
                     IN  IF r = 0 THEN v0 * 4 + (v1 \div 16)
                         ELSE IF r = 1 THEN (v1 % 16) * 16 + (v2 \div 4)
                         ELSE (v2 % 4) * 64 + v3],
                ok |-> TRUE])

----------------------------------------------------------------------------
(* crypto/sha256 and the %x verb *)

(***************************************************************************)
(* SHA-256 itself is out of reach of the model checker.  What the code     *)
(* relies on is a fixed function from byte strings to 32 bytes under which *)
(* different messages have different digests.  The stand-in reads the      *)
(* message as a number (bijective base 256) and stores its residues modulo *)
(* sixteen primes, two bytes each: two messages of at most 29 bytes never  *)
(* collide, and longer ones only when their difference is a multiple of    *)
(* the product of the primes.                                              *)
(***************************************************************************)
HashModuli ==
    <<32749, 32719, 32717, 32713, 32707, 32693, 32687, 32653,
      32647, 32633, 32621, 32611, 32609, 32603, 32587, 32579>>

\* 256^n mod p
RECURSIVE Pow256(_, _)
Pow256(n, p) ==
    IF n = 0 THEN 1
    ELSE Bind(Pow256(n \div 2, p), LAMBDA h :
              (((h * h) % p) * (IF n % 2 = 1 THEN 256 ELSE 1)) % p)

\* the number written msg[lo..hi], modulo p
RECURSIVE Residue(_, _, _, _)
Residue(msg, lo, hi, p) ==
    IF lo > hi THEN 0
    ELSE IF lo = hi THEN (msg[lo] + 1) % p
    ELSE LET mid == (lo + hi) \div 2
         IN  (Residue(msg, lo, mid, p) * Pow256(hi - mid, p)
                + Residue(msg, mid + 1, hi, p)) % p

\* sha256.Sum256(msg), a [32]byte
Sum256(msg) ==
    Bind([q \in 1..Len(HashModuli) |-> Residue(msg, 1, Len(msg), HashModuli[q])],
         LAMBDA res :
           [j \in 1..32 |->
              IF j % 2 = 1 THEN res[(j + 1) \div 2] \div 256
              ELSE res[j \div 2] % 256])

HexDigit(v) == IF v < 10 THEN 48 + v ELSE 97 + (v - 10)

\* fmt.Sprintf("%x", hash): two lower-case hex digits for every byte
SprintfX(hash) ==
    [j \in 1..(2 * Len(hash)) |->
       LET b == hash[(j + 1) \div 2]
       IN  IF j % 2 = 1 THEN HexDigit(b \div 16) ELSE HexDigit(b % 16)]

----------------------------------------------------------------------------
(* strings and bytes helpers *)

HasPrefixAt(s, sub, i) ==
    /\ i + Len(sub) - 1 <= Len(s)
    /\ \A j \in 1..Len(sub) : s[i + j - 1] = sub[j]

HasPrefix(s, sub) == HasPrefixAt(s, sub, 1)

HasSuffix(s, sub) ==
    Len(sub) <= Len(s) /\ HasPrefixAt(s, sub, Len(s) - Len(sub) + 1)

\* strings.Index(s, sub), counted from 1; 0 when sub does not occur
Index(s, sub) ==
    LET hits == { i \in 1..(Len(s) - Len(sub) + 1) : HasPrefixAt(s, sub, i) }
    IN  IF hits = {} THEN 0 ELSE CHOOSE i \in hits : \A j \in hits : i <= j

Contains(s, sub) == Index(s, sub) # 0

\* s[i:] for an index counted from 1
From(s, i) == SubSeq(s, i, Len(s))

KeepAll(s, sub) == s

\* strings.ReplaceAll(s, sub, ""), sub not empty
RECURSIVE RemoveAll(_, _)
RemoveAll(s, sub) ==
    Bind(s, LAMBDA text :
    Bind(Index(text, sub), LAMBDA i :
         IF i = 0 THEN text
         ELSE SubSeq(text, 1, i - 1)
                \o RemoveAll(From(text, i + Len(sub)), sub)))

----------------------------------------------------------------------------
(* encoding/pem *)

BeginPKCS1 == 
    <<45, 45, 45, 45, 45, 66, 69, 71, 73, 78, 32, 82, 83, 65, 32, 80, 82,
    73, 86, 65, 84, 69, 32, 75, 69, 89, 45, 45, 45, 45, 45>>
EndPKCS1 == 
    <<45, 45, 45, 45, 45, 69, 78, 68, 32, 82, 83, 65, 32, 80, 82, 73, 86,
    65, 84, 69, 32, 75, 69, 89, 45, 45, 45, 45, 45>>
BeginPKCS8 == 
    <<45, 45, 45, 45, 45, 66, 69, 71, 73, 78, 32, 80, 82, 73, 86, 65, 84,
    69, 32, 75, 69, 89, 45, 45, 45, 45, 45>>
EndPKCS8 == 
    <<45, 45, 45, 45, 45, 69, 78, 68, 32, 80, 82, 73, 86, 65, 84, 69, 32,
    75, 69, 89, 45, 45, 45, 45, 45>>
BeginPublic == 
    <<45, 45, 45, 45, 45, 66, 69, 71, 73, 78, 32, 80, 85, 66, 76, 73, 67,
    32, 75, 69, 89, 45, 45, 45, 45, 45>>
EndPublic == 
    <<45, 45, 45, 45, 45, 69, 78, 68, 32, 80, 85, 66, 76, 73, 67, 32, 75,
    69, 89, 45, 45, 45, 45, 45>>

pemStart == <<10, 45, 45, 45, 45, 45, 66, 69, 71, 73, 78, 32>>
pemEnd == <<10, 45, 45, 45, 45, 45, 69, 78, 68, 32>>
pemEndOfLine == <<45, 45, 45, 45, 45>>
ChNewline == <<10>>

NotSpaceOrTab(c) == c \notin {32, 9}

\* getLine of encoding/pem: the first line without its line end and without
\* trailing spaces and tabs, and what follows it
RECURSIVE TrimRightSpaceTab(_)
TrimRightSpaceTab(text) ==
    IF text # <<>> /\ text[Len(text)] \in {32, 9}
    THEN TrimRightSpaceTab(SubSeq(text, 1, Len(text) - 1))
    ELSE text

getLine(data) ==
    Bind(Index(data, ChNewline), LAMBDA i :
         IF i = 0 THEN [line |-> TrimRightSpaceTab(data), rest |-> <<>>]
         ELSE [line |-> TrimRightSpaceTab(
                          SubSeq(data, 1, IF i > 1 /\ data[i - 1] = 13
                                          THEN i - 2 ELSE i - 1)),
               rest |-> From(data, i + 1)])

NoBlock == [ok |-> FALSE, Type |-> <<>>, Bytes |-> <<>>]

\* the end of a block whose type line has been read: rest is what follows the
\* type line
RECURSIVE pemDecode(_)
pemDecodeBody(typeLine, rest) ==
    LET endAtStart == HasPrefix(rest, From(pemEnd, 2))
    IN  Bind(Index(rest, pemEnd), LAMBDA e :
          IF ~endAtStart /\ e = 0 THEN pemDecode(rest)
          ELSE
            Bind(IF endAtStart THEN From(rest, Len(pemEnd))
                 ELSE From(rest, e + Len(pemEnd)), LAMBDA endTrailer :
              LET body == IF endAtStart THEN <<>> ELSE SubSeq(rest, 1, e - 1)
                  endTrailerLen == Len(typeLine) + Len(pemEndOfLine)
              IN  IF Len(endTrailer) < endTrailerLen THEN pemDecode(rest)
                  ELSE
                    Bind(SubSeq(endTrailer, 1, endTrailerLen), LAMBDA trailer :
                    Bind(From(endTrailer, endTrailerLen + 1), LAMBDA restOfEndLine :
                      IF \/ ~HasPrefix(trailer, typeLine)
                         \/ ~HasSuffix(trailer, pemEndOfLine)
                         \/ getLine(restOfEndLine).line # <<>>
                      THEN pemDecode(rest)
                      ELSE
                        Bind(DecodeString(SelectSeq(body, NotSpaceOrTab)),
                             LAMBDA decoded :
                               IF ~decoded.ok THEN pemDecode(rest)
                               ELSE [ok |-> TRUE, Type |-> typeLine,
                                     Bytes |-> decoded.bytes])))))

\* pem.Decode(data): the first well-formed block of data; the texts explored
\* carry no "Key: value" header lines
pemDecode(data) ==
    LET atStart == HasPrefix(data, From(pemStart, 2))
    IN  Bind(Index(data, pemStart), LAMBDA i :
          IF ~atStart /\ i = 0 THEN NoBlock
          ELSE
            Bind(getLine(IF atStart THEN From(data, Len(pemStart))
                         ELSE From(data, i + Len(pemStart))), LAMBDA first :
              IF ~HasSuffix(first.line, pemEndOfLine) THEN pemDecode(first.rest)
              ELSE IF first.rest = <<>> THEN NoBlock
              ELSE pemDecodeBody(
                     SubSeq(first.line, 1, Len(first.line) - Len(pemEndOfLine)),
                     first.rest)))

----------------------------------------------------------------------------
(* crypto/x509 *)

(***************************************************************************)
(* A DER encoding is modelled as a three-byte prefix that tells the        *)
(* structure (PKCS#1 private key, PKCS#8 private key holding an RSA key or *)
(* a key of another algorithm, PKIX public key holding an RSA key or a key *)
(* of another algorithm), the fields of the key, and 45 bytes derived from *)
(* them that stand for the rest of the structure.  A parser accepts the    *)
(* encodings of its own structure and rejects every other byte string.     *)
(***************************************************************************)
PrefixPKCS1 == <<48, 130, 1>>
PrefixPKCS8 == <<48, 130, 8>>
PrefixPKCS8Other == <<48, 130, 7>>
PrefixPKIX == <<48, 130, 9>>
PrefixPKIXOther == <<48, 130, 6>>

NilKey == RSAKey(0, 0, 1, 1, 0)

KeyFields(key) ==
    <<key.N.size \div 256, key.N.size % 256, key.N.id,
      key.D.mul, key.E.mul, key.D.add>>
      \o [i \in 1..45 |-> (i * key.D.mul + key.D.add) % 256]

PublicFields(pub) ==
    <<pub.N.size \div 256, pub.N.size % 256, pub.N.id, pub.E.mul, pub.E.add>>
      \o [i \in 1..45 |-> (i * pub.E.mul + pub.E.add) % 256]

\* x509.MarshalPKCS1PrivateKey, x509.MarshalPKCS8PrivateKey,
\* x509.MarshalPKIXPublicKey
MarshalPKCS1PrivateKey(key) == PrefixPKCS1 \o KeyFields(key)
MarshalPKCS8PrivateKey(key) == PrefixPKCS8 \o KeyFields(key)
MarshalPKIXPublicKey(pub) == PrefixPKIX \o PublicFields(pub)

KeyOfFields(f) ==
    IF Len(f) < 6 THEN NilKey
    ELSE RSAKey(f[3], f[1] * 256 + f[2], f[4], f[5], f[6])

\* x509.ParsePKCS1PrivateKey(der)
ParsePKCS1PrivateKey(der) ==
    LET key == KeyOfFields(From(der, 4))
    IN  IF HasPrefix(der, PrefixPKCS1) /\ der = MarshalPKCS1PrivateKey(key)
        THEN [ok |-> TRUE, rsa |-> TRUE, key |-> key]
        ELSE [ok |-> FALSE, rsa |-> FALSE, key |-> NilKey]

\* x509.ParsePKCS8PrivateKey(der); rsa tells whether the key is an
\* *rsa.PrivateKey
ParsePKCS8PrivateKey(der) ==
    LET key == KeyOfFields(From(der, 4))
    IN  IF HasPrefix(der, PrefixPKCS8) /\ der = MarshalPKCS8PrivateKey(key)
        THEN [ok |-> TRUE, rsa |-> TRUE, key |-> key]
        ELSE IF HasPrefix(der, PrefixPKCS8Other)
        THEN [ok |-> TRUE, rsa |-> FALSE, key |-> NilKey]
        ELSE [ok |-> FALSE, rsa |-> FALSE, key |-> NilKey]

NilPublicKey == PublicKey(NilKey)

\* x509.ParsePKIXPublicKey(der); rsa tells whether the key is an
\* *rsa.PublicKey
ParsePKIXPublicKey(der) ==
    LET f == From(der, 4)
        pub == IF Len(f) < 5 THEN NilPublicKey
               ELSE [N |-> [id |-> f[3], size |-> f[1] * 256 + f[2]],
                     E |-> [private |-> FALSE, mul |-> f[4], add |-> f[5]]]
    IN  IF HasPrefix(der, PrefixPKIX) /\ der = MarshalPKIXPublicKey(pub)
        THEN [ok |-> TRUE, rsa |-> TRUE, key |-> pub]
        ELSE IF HasPrefix(der, PrefixPKIXOther)
        THEN [ok |-> TRUE, rsa |-> FALSE, key |-> NilPublicKey]
        ELSE [ok |-> FALSE, rsa |-> FALSE, key |-> NilPublicKey]

----------------------------------------------------------------------------
(* normalizePEMFormat and parsePrivateKey of the signing utilities *)

\* the loop of lines 193-201: every n characters of text followed by eol
RECURSIVE Wrap(_, _, _)
Wrap(text, n, eol) ==
    Bind(text, LAMBDA t :
         IF t = <<>> THEN <<>>
         ELSE IF Len(t) <= n THEN t \o eol
         ELSE SubSeq(t, 1, n) \o eol \o Wrap(From(t, n + 1), n, eol))

LineLen == 64

normalizePEMFormat(keyStr0) ==
    Bind(TrimSpace(keyStr0), LAMBDA keyStr :
      LET hasPKCS1Header == Contains(keyStr, BeginPKCS1)
          hasPKCS8Header == Contains(keyStr, BeginPKCS8)
          hasPKCS1Footer == Contains(keyStr, EndPKCS1)
          hasPKCS8Footer == Contains(keyStr, EndPKCS8)
      IN  IF (hasPKCS1Header /\ hasPKCS1Footer) \/ (hasPKCS8Header /\ hasPKCS8Footer)
          THEN keyStr
          ELSE
            LET s1 == RemoveAll(keyStr, BeginPKCS1)
                s2 == RemoveAll(s1, EndPKCS1)
                s3 == RemoveAll(s2, BeginPKCS8)
                s4 == RemoveAll(s3, EndPKCS8)
                s5 == TrimSpace(s4)
                s6 == RemoveAll(s5, <<10>>)
                s7 == RemoveAll(s6, <<13>>)
                s8 == RemoveAll(s7, <<32>>)
            IN  BeginPKCS1 \o ChNewline \o Wrap(s8, LineLen, ChNewline) \o EndPKCS1)

ErrPEM == "pem: no block found"
ErrFormat == "unsupported private key format"
ErrNotRSA == "not an RSA private key"

\* parsePrivateKey(keyStr) of haoz_pay_sign_utils.go: the key and the error
\* returned, with the normalized text and the bytes of the decoded block
parsePrivateKey(keyStr0) ==
    Bind(normalizePEMFormat(TrimSpace(keyStr0)), LAMBDA keyStr :
    Bind(pemDecode(keyStr), LAMBDA block :
      IF ~block.ok
      THEN [key |-> NilKey, err |-> ErrPEM, pem |-> keyStr, der |-> <<>>]
      ELSE
        Bind(ParsePKCS1PrivateKey(block.Bytes), LAMBDA pkcs1 :
          IF pkcs1.ok
          THEN [key |-> pkcs1.key, err |-> "", pem |-> keyStr, der |-> block.Bytes]
          ELSE
            Bind(ParsePKCS8PrivateKey(block.Bytes), LAMBDA pkcs8 :
              IF ~pkcs8.ok
              THEN [key |-> NilKey, err |-> ErrFormat, pem |-> keyStr,
                    der |-> block.Bytes]
              ELSE IF ~pkcs8.rsa
              THEN [key |-> NilKey, err |-> ErrNotRSA, pem |-> keyStr,
                    der |-> block.Bytes]
              ELSE [key |-> pkcs8.key, err |-> "", pem |-> keyStr,
                    der |-> block.Bytes]))))

----------------------------------------------------------------------------
(* The key texts explored *)

\* one key too short for a hex digest, one just long enough, one of 2048 bits
PemKeys == { key \in RSAKeys : key.N.id \in {3, 8, 9} }

\* PKCS#1 and PKCS#8 encodings of the keys, a PKCS#8 key of another
\* algorithm, bytes that are no key at all, and no bytes
PemDers ==
    { MarshalPKCS1PrivateKey(key) : key \in PemKeys }
      \cup { MarshalPKCS8PrivateKey(key) : key \in PemKeys }
      \cup { PrefixPKCS8Other \o KeyFields(NilKey), <<1, 2, 3, 4>>, <<>> }

\* their base64 bodies, and a body that is not base64
PemBodies == { EncodeToString(der) : der \in PemDers } \cup { <<33, 33, 33, 33>> }

NoMarker == <<>>
LineLens == {5, 64, 76, 100}
LineEnds == { <<10>>, <<13, 10>>, <<32, 10>>, <<9, 10>> }

\* a key text: the body in lines of n characters ended by eol, after the
\* marker begin and before the marker end when there is one, inside blank
\* space when outer is set
KeyText(body, begin, end, n, eol, outer) ==
    (IF outer THEN <<32, 10, 9>> ELSE <<>>)
      \o (IF begin = NoMarker THEN <<>> ELSE begin \o eol)
      \o Wrap(body, n, eol)
      \o end
      \o (IF outer THEN <<10, 32, 13, 10>> ELSE <<>>)

PemNoResult == [key |-> NilKey, err |-> "", pem |-> <<>>, der |-> <<>>]

PemInit ==
    /\ pemBody \in PemBodies
    /\ \E begin \in {NoMarker, BeginPKCS1, BeginPKCS8},
          end \in {NoMarker, EndPKCS1, EndPKCS8},
          n \in LineLens, eol \in LineEnds, outer \in BOOLEAN :
          pemText = KeyText(pemBody, begin, end, n, eol, outer)
    /\ pemDone = FALSE
    /\ pemRet = PemNoResult

CallParsePrivateKey ==
    /\ ~pemDone
    /\ pemDone' = TRUE
    /\ pemRet' = parsePrivateKey(pemText)
    /\ UNCHANGED <<pemBody, pemText>>

PemIdle ==
    /\ pemBody = <<>>
    /\ pemText = <<>>
    /\ pemDone = FALSE
    /\ pemRet = PemNoResult

----------------------------------------------------------------------------
(* GenerateSign *)

ErrParse == "parse private key failed"
ErrEncrypt == "RSA private key encryption failed"

RawNotCalled == [bytes |-> <<>>, err |-> "", em |-> <<>>, c |-> <<>>]

\* lines 77-95, what GenerateSign returns once BuildSignString returned
\* signStr: the string and the error, whether privateKeyEncryptRaw was
\* called, and with what and to what result
signSignString(signStr, privateKeyStr) ==
    Bind(Sum256(signStr), LAMBDA hash :
    Bind(SprintfX(hash), LAMBDA sha256Hash :
    Bind(parsePrivateKey(privateKeyStr), LAMBDA parsed :
      IF parsed.err # ""
      THEN [sign |-> <<>>, err |-> ErrParse, called |-> FALSE,
            key |-> NilKey, data |-> <<>>, raw |-> RawNotCalled]
      ELSE
        Bind(privateKeyEncryptRaw(parsed.key, sha256Hash), LAMBDA raw :
          IF raw.err # ""
          THEN [sign |-> <<>>, err |-> ErrEncrypt, called |-> TRUE,
                key |-> parsed.key, data |-> sha256Hash, raw |-> raw]
          ELSE [sign |-> EncodeToString(raw.bytes), err |-> "", called |-> TRUE,
                key |-> parsed.key, data |-> sha256Hash, raw |-> raw]))))

\* GenerateSign(params, privateKeyStr) when the map is ranged over in the
\* order iter
GenerateSign(p, privateKeyStr, iter) ==
    Bind(BuildSignStringRun(p, iter).str, LAMBDA signStr :
      signSignString(signStr, privateKeyStr))

GenParamSets ==
    { <<>>, ExampleParams,
      (<<97>> :> StrV(<<49>>)) @@ (<<98>> :> StrV(<<50>>)),
      (<<97>> :> StrV(<<49>>)) @@ (<<98>> :> IntV(-12)),
      (<<66>> :> StrV(<<120>>)) @@ (<<97>> :> StrV(<<32, 10>>)) @@ (<<99>> :> StrV(<<49>>)) }

\* every key as an armored PKCS#1 text and as a bare PKCS#8 body, and two
\* texts that hold no RSA key
GenKeyStrs ==
    { KeyText(EncodeToString(MarshalPKCS1PrivateKey(key)),
              BeginPKCS1, EndPKCS1, LineLen, <<10>>, FALSE) : key \in RSAKeys }
      \cup { EncodeToString(MarshalPKCS8PrivateKey(key)) : key \in RSAKeys }
      \cup { <<33, 33, 33, 33>>,
             EncodeToString(PrefixPKCS8Other \o KeyFields(NilKey)) }

GenNoResult == [sign |-> <<>>, err |-> ""]

GenInit ==
    /\ genParams \in GenParamSets
    /\ genKeyStr \in GenKeyStrs
    /\ genDone = FALSE
    /\ genRet = GenNoResult

\* a call GenerateSign(genParams, genKeyStr), with the call of
\* privateKeyEncryptRaw it makes
CallGenerateSign ==
    /\ ~genDone
    /\ genDone' = TRUE
    /\ \E iter \in Orders(DOMAIN genParams) :
          \E ret \in { GenerateSign(genParams, genKeyStr, iter) } :
              /\ genRet' = [sign |-> ret.sign, err |-> ret.err]
              /\ IF ret.called
                 THEN /\ rawKey' = ret.key
                      /\ rawData' = ret.data
                      /\ rawDone' = TRUE
                      /\ rawRet' = ret.raw
                 ELSE UNCHANGED rawVars
    /\ UNCHANGED <<genParams, genKeyStr>>

GenIdle ==
    /\ genParams = <<>>
    /\ genKeyStr = <<>>
    /\ genDone = FALSE
    /\ genRet = GenNoResult

----------------------------------------------------------------------------
(* crypto/rsa: SignPKCS1v15 and VerifyPKCS1v15 with crypto.SHA256 *)

\* the DER prefix of a SHA-256 DigestInfo
HashPrefixSHA256 ==
    <<48, 49, 48, 13, 6, 9, 96, 134, 72, 1, 101, 3, 4, 2, 1, 5, 0, 4, 32>>

\* the encoded message of k bytes: 0x00 0x01, 0xFF up to index k-tLen-2,
\* 0x00, the prefix, the digest
EncodedMessage(k, hashed) ==
    LET tLen == Len(HashPrefixSHA256) + Len(hashed)
    IN  [i \in 1..k |->
           LET idx == i - 1
           IN  IF idx = 0 THEN 0
               ELSE IF idx = 1 THEN 1
               ELSE IF idx < k - tLen - 1 THEN 255
               ELSE IF idx = k - tLen - 1 THEN 0
               ELSE IF idx < k - Len(hashed) THEN HashPrefixSHA256[idx - (k - tLen) + 1]
               ELSE hashed[idx - (k - Len(hashed)) + 1]]

TooLongBelow63(k, hashed) == k < Len(HashPrefixSHA256) + Len(hashed) + 12

\* the key is too short for the encoded message
MessageTooLong(k, hashed) == k < Len(HashPrefixSHA256) + Len(hashed) + 11

\* rsa.SignPKCS1v15(rand.Reader, priv, crypto.SHA256, hashed)
SignPKCS1v15(priv, hashed) ==
    LET k == Size(priv)
    IN  IF MessageTooLong(k, hashed) THEN [sig |-> <<>>, ok |-> FALSE]
        ELSE Bind(EncodedMessage(k, hashed), LAMBDA em :
             Bind(Exp(SetBytes(em), priv.D, priv.N), LAMBDA c :
                  [sig |-> LeftPadCopy(k, Bytes(c)), ok |-> TRUE]))

\* rsa.VerifyPKCS1v15(pub, crypto.SHA256, hashed, sig) = nil
VerifyPKCS1v15(pub, hashed, sig) ==
    LET k == pub.N.size
    IN  /\ ~MessageTooLong(k, hashed)
        /\ Len(sig) = k
        /\ Bind(Exp(SetBytes(sig), pub.E, pub.N), LAMBDA m :
                LeftPadCopy(k, Bytes(m)) = EncodedMessage(k, hashed))

----------------------------------------------------------------------------
(* generateHaozPaySignature and verifyHaozPaySignature of the middleware *)

\* one pass of the loop body of lines 82-92 and 152-162, what it writes to
\* the builder; i counts from 1
WriteParam(p, keys, i) ==
    IF p[keys[i]] # <<>>
    THEN (IF i > 1 THEN ChAmp ELSE <<>>) \o keys[i] \o ChEq \o p[keys[i]]
    ELSE <<>>

\* the loop of lines 81-92 and 152-163 over the sorted keys; i counts from 1
RECURSIVE WriteParams(_, _, _)
WriteParams(p, keys, i) ==
    IF i > Len(keys) THEN <<>>
    ELSE WriteParam(p, keys, i) \o WriteParams(p, keys, i + 1)

\* paramsStr, when ranging over the map yields the keys in the order iter
ParamsStr(p, iter) == Bind(SortStrings(iter), LAMBDA keys : WriteParams(p, keys, 1))

\* parsePrivateKey(privateKeyPEM) of the middleware: PKCS#8 first, then PKCS#1
middlewareParsePrivateKey(privateKeyPEM) ==
    Bind(pemDecode(privateKeyPEM), LAMBDA block :
      IF ~block.ok THEN [key |-> NilKey, ok |-> FALSE]
      ELSE
        Bind(ParsePKCS8PrivateKey(block.Bytes), LAMBDA pkcs8 :
          IF pkcs8.ok
          THEN (IF pkcs8.rsa THEN [key |-> pkcs8.key, ok |-> TRUE]
                ELSE [key |-> NilKey, ok |-> FALSE])
          ELSE
            Bind(ParsePKCS1PrivateKey(block.Bytes), LAMBDA pkcs1 :
              IF pkcs1.ok THEN [key |-> pkcs1.key, ok |-> TRUE]
              ELSE [key |-> NilKey, ok |-> FALSE])))

\* parsePublicKey(publicKeyPEM)
parsePublicKey(publicKeyPEM) ==
    Bind(pemDecode(publicKeyPEM), LAMBDA block :
      IF ~block.ok THEN [key |-> NilPublicKey, ok |-> FALSE]
      ELSE
        Bind(ParsePKIXPublicKey(block.Bytes), LAMBDA pkix :
          IF pkix.ok /\ pkix.rsa THEN [key |-> pkix.key, ok |-> TRUE]
          ELSE [key |-> NilPublicKey, ok |-> FALSE]))

ErrParsePrivate == "failed to parse private key"
ErrSign == "failed to sign"
ErrParsePublic == "failed to parse public key"
ErrDecode == "failed to decode signature"
ErrVerify == "signature verification failed"

\* lines 94-108: the string and the error returned once the builder holds
\* paramsStr
signParamsStr(privateKeyPEM, paramsStr) ==
    Bind(Sum256(paramsStr), LAMBDA hash :
    Bind(middlewareParsePrivateKey(privateKeyPEM), LAMBDA parsed :
      IF ~parsed.ok THEN [sign |-> <<>>, err |-> ErrParsePrivate]
      ELSE
        Bind(SignPKCS1v15(parsed.key, hash), LAMBDA signed :
          IF ~signed.ok THEN [sign |-> <<>>, err |-> ErrSign]
          ELSE [sign |-> EncodeToString(signed.sig), err |-> ""])))

\* generateHaozPaySignature(privateKeyPEM, params): the string and the error
generateHaozPaySignature(privateKeyPEM, p, iter) ==
    Bind(ParamsStr(p, iter), LAMBDA paramsStr :
      signParamsStr(privateKeyPEM, paramsStr))

IgnoreDecodeError(decoded) == FALSE

\* the check of line 172
DecodeFailed(decoded) == ~decoded.ok

\* lines 164-182: the error returned once the builder holds paramsStr
verifyParamsStr(publicKeyPEM, paramsStr, signature) ==
    Bind(Sum256(paramsStr), LAMBDA hash :
    Bind(parsePublicKey(publicKeyPEM), LAMBDA parsed :
      IF ~parsed.ok THEN ErrParsePublic
      ELSE
        Bind(DecodeString(signature), LAMBDA decoded :
          IF DecodeFailed(decoded) THEN ErrDecode
          ELSE IF ~VerifyPKCS1v15(parsed.key, hash, decoded.bytes) THEN ErrVerify
          ELSE "")))

\* verifyHaozPaySignature(publicKeyPEM, params, signature): the error, "" for nil
verifyHaozPaySignature(publicKeyPEM, p, signature, iter) ==
    Bind(ParamsStr(p, iter), LAMBDA paramsStr :
      verifyParamsStr(publicKeyPEM, paramsStr, signature))

----------------------------------------------------------------------------
(* The keys, parameters and signatures explored for the middleware *)

\* keys of 61, 62, 75 and 256 bytes
StdKeys == { key \in RSAKeys : key.N.id \in {11, 6, 7, 9} }

\* another key of 75 bytes
OtherKey == CHOOSE key \in RSAKeys : key.N.id = 8

Armored(der, begin, end) ==
    KeyText(EncodeToString(der), begin, end, LineLen, ChNewline, FALSE)

PrivateTexts(key) ==
    { Armored(MarshalPKCS8PrivateKey(key), BeginPKCS8, EndPKCS8),
      Armored(MarshalPKCS1PrivateKey(key), BeginPKCS1, EndPKCS1) }

PublicText(pub) == Armored(MarshalPKIXPublicKey(pub), BeginPublic, EndPublic)

\* a text without markers, and a PKCS#8 key of another algorithm
BadPrivateTexts ==
    { EncodeToString(MarshalPKCS8PrivateKey(OtherKey)),
      Armored(PrefixPKCS8Other \o KeyFields(NilKey), BeginPKCS8, EndPKCS8) }

\* the public key of another pair, a public key of another algorithm, and a
\* text that holds no key
StrayPublicTexts ==
    { PublicText(PublicKey(OtherKey)),
      Armored(PrefixPKIXOther \o PublicFields(NilPublicKey), BeginPublic, EndPublic),
      <<33, 33, 33, 33>> }

\* maps over the keys "a" and "b": "a" is "", "1" or "1&b=2", "b" is "" or "2"
StdParamSets ==
    LET AValues == { <<>>, <<49>>, <<49, 38, 98, 61, 50>> }
        BValues == { <<>>, <<50>> }
    IN  { <<>> }
          \cup { (<<97>> :> a) : a \in AValues }
          \cup { (<<98>> :> b) : b \in BValues }
          \cup { (<<97>> :> a) @@ (<<98>> :> b) : a \in AValues, b \in BValues }

Pow2(b) == IF b = 0 THEN 1 ELSE 2 * (IF b = 1 THEN 1 ELSE 2 * (IF b = 2 THEN 1
           ELSE 2 * (IF b = 3 THEN 1 ELSE 2 * (IF b = 4 THEN 1 ELSE 2 * (IF b = 5
           THEN 1 ELSE 2 * (IF b = 6 THEN 1 ELSE 2))))))

\* the byte c with bit b flipped
FlipBit(c, b) ==
    IF (c \div Pow2(b)) % 2 = 1 THEN c - Pow2(b) ELSE c + Pow2(b)

\* the index of the last character of text that is not "="
LastSignificant(text) ==
    IF text = <<>> THEN 0
    ELSE CHOOSE i \in 1..Len(text) :
           /\ text[i] # ChPad[1]
           /\ \A j \in (i + 1)..Len(text) : text[j] = ChPad[1]

\* the strings that differ from text in one bit of its first or of its last
\* significant character
OneBitOff(text) ==
    IF text = <<>> THEN {}
    ELSE { [text EXCEPT ![i] = FlipBit(text[i], b)] :
             i \in {1, LastSignificant(text)}, b \in 0..7 }

\* what a caller may pass for the signature produced: the string itself, a
\* string one bit off, the string cut short, and strings that are no signature
Signatures(text) ==
    {text} \cup OneBitOff(text)
      \cup { SubSeq(text, 1, Len(text) - 4), <<>>, <<33, 33, 33, 33>> }

NoSign == [sign |-> <<>>, err |-> ""]

StdInit ==
    /\ \/ \E key \in StdKeys :
             /\ stdPriv \in PrivateTexts(key)
             /\ stdPub \in {PublicText(PublicKey(key))} \cup StrayPublicTexts
       \/ /\ stdPriv \in BadPrivateTexts
          /\ stdPub \in {PublicText(PublicKey(OtherKey))} \cup StrayPublicTexts
    /\ stdParams \in StdParamSets
    /\ stdSigned = FALSE
    /\ stdSign = NoSign
    /\ vParams = <<>>
    /\ vSignature = <<>>
    /\ vDone = FALSE
    /\ vErr = ""

\* a call generateHaozPaySignature(stdPriv, stdParams)
CallGenerateHaozPaySignature ==
    /\ ~stdSigned
    /\ stdSigned' = TRUE
    /\ \E iter \in Orders(DOMAIN stdParams) :
          stdSign' = generateHaozPaySignature(stdPriv, stdParams, iter)
    /\ UNCHANGED <<stdPriv, stdPub, stdParams, vParams, vSignature, vDone, vErr>>

\* a call verifyHaozPaySignature(stdPub, p, signature), for the parameters
\* signed with some signature string, or for other parameters with the
\* signature produced
CallVerifyHaozPaySignature ==
    /\ stdSigned
    /\ ~vDone
    /\ \E p \in StdParamSets, signature \in Signatures(stdSign.sign) :
          /\ p = stdParams \/ signature = stdSign.sign
          /\ vParams' = p
          /\ vSignature' = signature
          /\ \E iter \in Orders(DOMAIN p) :
                vErr' = verifyHaozPaySignature(stdPub, p, signature, iter)
    /\ vDone' = TRUE
    /\ UNCHANGED <<stdPriv, stdPub, stdParams, stdSigned, stdSign>>

StdIdle ==
    /\ stdPriv = <<>>
    /\ stdPub = <<>>
    /\ stdParams = <<>>
    /\ stdSigned = FALSE
    /\ stdSign = NoSign
    /\ vParams = <<>>
    /\ vSignature = <<>>
    /\ vDone = FALSE
    /\ vErr = ""

----------------------------------------------------------------------------
(* encoding/json *)

ChQuote == <<34>>

\* the escapes json.Marshal writes inside a string for ", \, & < and >
RECURSIVE JsonEscape(_)
JsonEscape(text) ==
    IF text = <<>> THEN <<>>
    ELSE LET c == Head(text)
         IN  (IF c = 34 THEN <<92, 34>>
              ELSE IF c = 92 THEN <<92, 92>>
              ELSE IF c = 38 THEN <<92, 117, 48, 48, 50, 54>>
              ELSE IF c = 60 THEN <<92, 117, 48, 48, 51, 99>>
              ELSE IF c = 62 THEN <<92, 117, 48, 48, 51, 101>>
              ELSE <<c>>) \o JsonEscape(Tail(text))

JsonString(text) == ChQuote \o JsonEscape(text) \o ChQuote

JsonBool(b) == IF b THEN StrTrue ELSE StrFalse

\* a float64 is either NaN, which json.Marshal refuses, or a whole number
NaN == [nan |-> TRUE, units |-> 0]
Whole(n) == [nan |-> FALSE, units |-> n]
JsonFloat(f) == FormatInt(f.units)

\* "name":text
JsonField(name, text) == <<JsonString(name) \o <<58>> \o text>>

\* a string field tagged omitempty
JsonOmitEmpty(name, text) ==
    IF text = <<>> THEN <<>> ELSE JsonField(name, JsonString(text))

RECURSIVE JoinComma(_)
JoinComma(fields) ==
    IF fields = <<>> THEN <<>>
    ELSE IF Len(fields) = 1 THEN fields[1]
    ELSE fields[1] \o <<44>> \o JoinComma(Tail(fields))

JsonObject(fields) == <<123>> \o JoinComma(fields) \o <<125>>

Marshalled(text) == [ok |-> TRUE, text |-> text]
MarshalFailed == [ok |-> FALSE, text |-> <<>>]

\* json.Marshal(req) for the five request types
MarshalCreatePaymentOrderRequest(req) ==
    IF req.OrderAmount.nan THEN MarshalFailed
    ELSE Marshalled(JsonObject(
           JsonField(<<111, 114, 100, 101, 114, 84, 105, 116, 108, 101>>, JsonString(req.OrderTitle))
             \o JsonField(<<111, 114, 100, 101, 114, 65, 109, 111, 117, 110, 116>>, JsonFloat(req.OrderAmount))
             \o JsonField(<<112, 97, 121, 84, 121, 112, 101>>, FormatInt(req.PayType))
             \o JsonField(<<117, 115, 101, 72, 97, 111, 122, 80, 97, 121, 67, 97, 115, 104, 105, 101, 114>>, JsonBool(req.UseHaozPayCashier))
             \o JsonField(<<110, 111, 116, 105, 102, 121, 85, 114, 108>>, JsonString(req.NotifyUrl))))

MarshalCancelPaymentOrderRequest(req) ==
    Marshalled(JsonObject(
      JsonField(<<111, 114, 100, 101, 114, 78, 111>>, JsonString(req.OrderNo))
        \o JsonOmitEmpty(<<99, 97, 110, 99, 101, 108, 82, 101, 97, 115, 111, 110>>, req.CancelReason)))

MarshalCreateRefundRequest(req) ==
    IF req.RefundAmount.nan THEN MarshalFailed
    ELSE Marshalled(JsonObject(
           JsonField(<<114, 101, 113, 83, 101, 113, 73, 100>>, JsonString(req.ReqSeqId))
             \o JsonField(<<114, 101, 102, 117, 110, 100, 65, 109, 111, 117, 110, 116>>, JsonFloat(req.RefundAmount))
             \o JsonOmitEmpty(<<114, 101, 102, 117, 110, 100, 82, 101, 97, 115, 111, 110>>, req.RefundReason)
             \o JsonOmitEmpty(<<114, 101, 109, 97, 114, 107>>, req.Remark)
             \o JsonOmitEmpty(<<110, 111, 116, 105, 102, 121, 85, 114, 108>>, req.NotifyUrl)))

MarshalQueryRefundRequest(req) ==
    Marshalled(JsonObject(JsonField(<<111, 114, 100, 101, 114, 78, 111>>, JsonString(req.OrderNo))))

MarshalCreateWithdrawRequest(req) ==
    IF req.WithdrawAmount.nan THEN MarshalFailed
    ELSE Marshalled(JsonObject(
           JsonField(<<112, 97, 121, 67, 104, 97, 110, 110, 101, 108>>, JsonString(req.PayChannel))
             \o JsonField(<<119, 105, 116, 104, 100, 114, 97, 119, 65, 109, 111, 117, 110, 116>>, JsonFloat(req.WithdrawAmount))
             \o JsonField(<<114, 101, 113, 83, 101, 113, 73, 100>>, JsonString(req.ReqSeqId))
             \o JsonOmitEmpty(<<114, 101, 109, 97, 114, 107>>, req.Remark)
             \o JsonOmitEmpty(<<110, 111, 116, 105, 102, 121, 85, 114, 108>>, req.NotifyUrl)))

----------------------------------------------------------------------------
(* signatureMiddleware *)

StrMerchantNo == <<109, 101, 114, 99, 104, 97, 110, 116, 78, 111>>
StrTimestamp == <<116, 105, 109, 101, 115, 116, 97, 109, 112>>
StrBizBody == <<98, 105, 122, 66, 111, 100, 121>>

\* paramsMap of lines 45-50
ParamsMap(req) ==
    (StrMerchantNo :> req.MerchantNo)
      @@ (StrTimestamp :> FormatInt(req.Timestamp))
      @@ (IF req.BizBody # <<>> THEN (StrBizBody :> req.BizBody) ELSE <<>>)

ErrGenerate == "failed to generate signature"

signatureSwallowsError(privateKeyPEM, r, iter) ==
    IF ~r.hasBody THEN [err |-> "", Body |-> r.Body]
    ELSE Bind(generateHaozPaySignature(privateKeyPEM, ParamsMap(r.Body), iter),
              LAMBDA signed : [err |-> "", Body |-> [r.Body EXCEPT !.Sign = signed.sign]])

\* the middleware signatureMiddleware(privateKeyPEM) applied to the request r
\* whose body, when it has one, is a *HaozPayRequest: the error returned and
\* the body the request is left with
signatureMiddleware(privateKeyPEM, r, iter) ==
    IF ~r.hasBody THEN [err |-> "", Body |-> r.Body]
    ELSE Bind(generateHaozPaySignature(privateKeyPEM, ParamsMap(r.Body), iter),
              LAMBDA signed :
                IF signed.err # "" THEN [err |-> ErrGenerate, Body |-> r.Body]
                ELSE [err |-> "", Body |-> [r.Body EXCEPT !.Sign = signed.sign]])

----------------------------------------------------------------------------
(* The client: NewClient, the PaymentService operations, resty's attempts *)

MaxRetryCount == 2

\* a PKCS#8 key of 62 bytes, a PKCS#1 key of 75 bytes, a key of 61 bytes,
\* too short to sign with, and a key text without markers
ClientKeyTexts ==
    { Armored(MarshalPKCS8PrivateKey(CHOOSE key \in RSAKeys : key.N.id = 6),
              BeginPKCS8, EndPKCS8),
      Armored(MarshalPKCS1PrivateKey(CHOOSE key \in RSAKeys : key.N.id = 7),
              BeginPKCS1, EndPKCS1),
      Armored(MarshalPKCS8PrivateKey(CHOOSE key \in RSAKeys : key.N.id = 11),
              BeginPKCS8, EndPKCS8),
      EncodeToString(MarshalPKCS8PrivateKey(OtherKey)) }

\* the configurations passed to NewClient, with and without the fields
\* Validate requires
Configs ==
    [BaseURL : { "", "https://gate.haozpay.com" },
     MerchantNo : { <<>>, <<77, 49>> },
     PrivateKey : ClientKeyTexts \cup { <<>> },
     RetryCount : 0..MaxRetryCount]

ReqStrings == { <<84, 49>>, <<97, 38, 98>> }
ReqAmounts == { Whole(250), NaN }
Timestamps == { 0, 1699 }

\* error values: nil, an *SDKError, an error of another package, and the
\* error fmt.Errorf makes with %w around an error
NilError == [type |-> "nil"]
MarshalError == [type |-> "*json.UnsupportedValueError"]
SignError == [type |-> "*errors.errorString"]
TransportError == [type |-> "*url.Error"]
Errorf(msg, err) == [type |-> "*fmt.wrapError", msg |-> msg, err |-> err]

NewSDKError(code, message, statusCode) ==
    [type |-> "*SDKError", Code |-> code, Message |-> message,
     RequestID |-> "", StatusCode |-> statusCode]

NewSDKErrorWithRequestID(code, message, statusCode, requestID) ==
    [type |-> "*SDKError", Code |-> code, Message |-> message,
     RequestID |-> requestID, StatusCode |-> statusCode]

\* no response, and the zero value of the result a response is decoded into
NoResponse ==
    [kind |-> "none", StatusCode |-> 0, json |-> FALSE, Code |-> 0,
     Message |-> "", RequestID |-> ""]

NoRequest == [MerchantNo |-> <<>>, Timestamp |-> 0, BizBody |-> <<>>, Sign |-> <<>>]

ErrInvalidConfig(message) ==
    [type |-> "*ConfigError", Field |-> "config", Message |-> message]

ValidateWithoutMerchantNo(c) ==
    IF c.BaseURL = "" THEN ErrInvalidConfig("BaseURL is required")
    ELSE IF c.PrivateKey = <<>> THEN ErrInvalidConfig("PrivateKey is required")
    ELSE NilError

\* c.Validate()
Validate(c) ==
    IF c.BaseURL = "" THEN ErrInvalidConfig("BaseURL is required")
    ELSE IF c.MerchantNo = <<>> THEN ErrInvalidConfig("MerchantNo is required")
    ELSE IF c.PrivateKey = <<>> THEN ErrInvalidConfig("PrivateKey is required")
    ELSE NilError

NilClient == [isNil |-> TRUE]

\* resty.New() as NewClient sets it up: the settings taken from the
\* configuration and the middlewares in the order registered
RestyClient(c) ==
    [BaseURL |-> c.BaseURL, RetryCount |-> c.RetryCount,
     udBeforeRequest |-> <<"requestLogMiddleware", "signatureMiddleware">>,
     privateKeyPEM |-> c.PrivateKey,
     afterResponse |-> <<"responseLogMiddleware", "errorHandlerMiddleware">>]

NewPaymentService(restyClient, config) ==
    [client |-> restyClient, config |-> config]

\* the state before NewClient(cfg) is called
ClientInit ==
    /\ cfg \in Configs
    /\ pc = "new"
    /\ client = NilClient
    /\ newErr = NilError
    /\ path = ""
    /\ haozReq = NoRequest
    /\ attempt = 0
    /\ wire = <<>>
    /\ opErr = ""
    /\ response = NoResponse
    /\ opRet = NilError

\* NewClient(cfg)
NewClient ==
    /\ pc = "new"
    /\ \E err \in { Validate(cfg) } :
          IF err # NilError
          THEN /\ pc' = "failed"
               /\ client' = NilClient
               /\ newErr' = err
          ELSE /\ pc' = "ready"
               /\ client' = [isNil |-> FALSE, config |-> cfg,
                              restyClient |-> RestyClient(cfg),
                              Payment |-> NewPaymentService(RestyClient(cfg), cfg)]
               /\ newErr' = NilError
    /\ UNCHANGED <<cfg, path, haozReq, attempt, wire, opErr, response, opRet>>

ErrMarshal == "failed to marshal bizBody"
ErrSDK == "SDKError"

\* lines 25-45 and their like in the other operations: the request body is
\* built from the marshalled request and the clock, and posted to postPath
Post(marshalled, now, postPath) ==
    /\ pc = "ready"
    /\ IF ~marshalled.ok
       THEN /\ pc' = "returned"
            /\ opErr' = ErrMarshal
            /\ opRet' = Errorf(ErrMarshal, MarshalError)
            /\ UNCHANGED <<path, haozReq>>
       ELSE /\ pc' = "execute"
            /\ path' = postPath
            /\ haozReq' = [MerchantNo |-> client.Payment.config.MerchantNo, Timestamp |-> now,
                           BizBody |-> marshalled.text, Sign |-> <<>>]
            /\ UNCHANGED <<opErr, opRet>>
    /\ UNCHANGED <<cfg, attempt, wire, response, client, newErr>>

CreateOrder ==
    \E title \in ReqStrings, amount \in ReqAmounts, now \in Timestamps :
       Post(MarshalCreatePaymentOrderRequest(
              [OrderTitle |-> title, OrderAmount |-> amount, PayType |-> 0,
               UseHaozPayCashier |-> FALSE, NotifyUrl |-> <<>>]),
            now, "/pay-core/payment/order")

CancelOrder ==
    \E orderNo \in ReqStrings, now \in Timestamps :
       Post(MarshalCancelPaymentOrderRequest(
              [OrderNo |-> orderNo, CancelReason |-> <<>>]),
            now, "/pay-core/payment/cancel")

CreateRefund ==
    \E seq \in ReqStrings, amount \in ReqAmounts, now \in Timestamps :
       Post(MarshalCreateRefundRequest(
              [ReqSeqId |-> seq, RefundAmount |-> amount, RefundReason |-> <<>>,
               Remark |-> seq, NotifyUrl |-> <<>>]),
            now, "/pay-core/payment/refund")

QueryRefund ==
    \E orderNo \in ReqStrings, now \in Timestamps :
       Post(MarshalQueryRefundRequest([OrderNo |-> orderNo]),
            now, "/pay-core/payment/refund/query")

CreateWithdraw ==
    \E channel \in ReqStrings, amount \in ReqAmounts, now \in Timestamps :
       Post(MarshalCreateWithdrawRequest(
              [PayChannel |-> channel, WithdrawAmount |-> amount, ReqSeqId |-> <<>>,
               Remark |-> <<>>, NotifyUrl |-> channel]),
            now, "/pay-core/account/withdraw")

\* the error an operation wraps a failed Post in
OpFailure(postPath) ==
    IF postPath = "/pay-core/payment/order" THEN "failed to create payment order"
    ELSE IF postPath = "/pay-core/payment/cancel" THEN "failed to cancel payment order"
    ELSE IF postPath = "/pay-core/payment/refund" THEN "failed to create refund"
    ELSE IF postPath = "/pay-core/payment/refund/query" THEN "failed to query refund"
    ELSE "failed to create withdraw"

\* what the transport may bring back for a body handed over: its own error,
\* or a response of the platform
TransportFailed == [kind |-> "transport error"]
Responses ==
    { [kind |-> "response", StatusCode |-> 200, json |-> TRUE, Code |-> 0,
       Message |-> "success", RequestID |-> "r-1"],
      [kind |-> "response", StatusCode |-> 200, json |-> TRUE, Code |-> 40001,
       Message |-> "order closed", RequestID |-> "r-2"],
      [kind |-> "response", StatusCode |-> 400, json |-> TRUE, Code |-> 40001,
       Message |-> "order closed", RequestID |-> "r-3"],
      [kind |-> "response", StatusCode |-> 401, json |-> TRUE, Code |-> 1004,
       Message |-> "unauthorized", RequestID |-> ""],
      [kind |-> "response", StatusCode |-> 503, json |-> FALSE, Code |-> 0,
       Message |-> "", RequestID |-> ""] }
Outcomes == { TransportFailed } \cup Responses

\* the middleware errorHandlerMiddleware() applied to the response r
errorHandlerMiddleware(r) ==
    IF r.StatusCode >= 400
    THEN IF ~r.json
         THEN NewSDKError(0, "failed to parse error response", r.StatusCode)
         ELSE NewSDKErrorWithRequestID(r.Code, r.Message, r.StatusCode, r.RequestID)
    ELSE NilError

\* lines 47-59 and their like: what the operation returns when Post returned
\* err and left result as the response body decoded into it
OperationReturns(postPath, err, result) ==
    IF err # NilError THEN Errorf(OpFailure(postPath), err)
    ELSE IF result.Code # 0 THEN NewSDKError(result.Code, result.Message, 0)
    ELSE NilError

\* the text kept in opErr for an error value
ErrText(err) ==
    IF err = NilError THEN ""
    ELSE IF err.type = "*SDKError" THEN ErrSDK
    ELSE err.msg

\* one attempt of resty for the request: the before-request middlewares in the
\* order NewClient registered them (requestLogMiddleware only prints), then
\* the transport, then the after-response middlewares (responseLogMiddleware
\* only prints).  An error of a middleware ends the request without another
\* attempt; an error of the transport is followed by another attempt while
\* RetryCount allows.
Execute ==
    /\ pc = "execute"
    /\ attempt' = attempt + 1
    /\ \E iter \in Orders(DOMAIN ParamsMap(haozReq)) :
       \E mw \in { signatureMiddleware(client.restyClient.privateKeyPEM,
                                       [hasBody |-> TRUE, Body |-> haozReq], iter) } :
          IF mw.err # ""
          THEN /\ pc' = "returned"
               /\ opRet' = OperationReturns(path, Errorf(mw.err, SignError), NoResponse)
               /\ opErr' = ErrText(opRet')
               /\ UNCHANGED <<haozReq, wire, response>>
          ELSE /\ haozReq' = mw.Body
               /\ wire' = Append(wire, [path |-> path, Body |-> mw.Body])
               /\ \E outcome \in Outcomes :
                     IF outcome = TransportFailed
                     THEN /\ response' = NoResponse
                          /\ IF attempt' <= client.restyClient.RetryCount
                             THEN pc' = "execute" /\ UNCHANGED <<opErr, opRet>>
                             ELSE /\ pc' = "returned"
                                  /\ opRet' = OperationReturns(path, TransportError,
                                                               NoResponse)
                                  /\ opErr' = ErrText(opRet')
                     ELSE /\ response' = outcome
                          /\ pc' = "returned"
                          /\ opRet' = OperationReturns(
                                        path, errorHandlerMiddleware(outcome),
                                        IF outcome.StatusCode < 300 THEN outcome
                                        ELSE NoResponse)
                          /\ opErr' = ErrText(opRet')
    /\ UNCHANGED <<cfg, path, client, newErr>>

ClientIdle ==
    /\ cfg = [BaseURL |-> "", MerchantNo |-> <<>>, PrivateKey |-> <<>>,
              RetryCount |-> 0]
    /\ pc = "unused"
    /\ client = NilClient
    /\ newErr = NilError
    /\ path = ""
    /\ haozReq = NoRequest
    /\ attempt = 0
    /\ wire = <<>>
    /\ opErr = ""
    /\ response = NoResponse
    /\ opRet = NilError

----------------------------------------------------------------------------
(* Concurrent calls on one Client *)

NumGoroutines == 2
Goroutines == 1..NumGoroutines
Addresses == 0..NumGoroutines

\* what a call keeps in values of its own: the strings.Builder with the keys
\* written to it, and the *HaozPayRequest of an operation
EmptyFrame == [sb |-> <<>>, written |-> <<>>, haozReq |-> NoRequest]

AllocShared(g) == 0

\* the address of the values the call of goroutine g makes for itself with
\* make, var and &HaozPayRequest{}: new ones for every call
Alloc(g) == g

NoCall ==
    [fn |-> "", params |-> <<>>, strParams |-> <<>>, orderNo |-> <<>>,
     key |-> <<>>, signature |-> <<>>, now |-> 0]
NoRet == [sign |-> <<>>, err |-> "", body |-> NoRequest]

ConcSignKey == CHOOSE key \in RSAKeys : key.N.id = 6
ConcRawKey == CHOOSE key \in RSAKeys : key.N.id = 8
ConcStrParams ==
    { (<<97>> :> <<49>>) @@ (<<98>> :> <<50>>),
      (<<97>> :> <<>>) @@ (<<98>> :> <<50>>) @@ (<<99>> :> <<120>>) }
ConcSignature ==
    generateHaozPaySignature(
      Armored(MarshalPKCS8PrivateKey(ConcSignKey), BeginPKCS8, EndPKCS8),
      (<<97>> :> <<49>>) @@ (<<98>> :> <<50>>), << <<97>>, <<98>> >>).sign

\* the calls made side by side
ConcCalls ==
    { [NoCall EXCEPT !.fn = "GenerateSign", !.params = p,
                     !.key = EncodeToString(MarshalPKCS8PrivateKey(ConcRawKey))] :
         p \in { ExampleParams, (<<97>> :> StrV(<<49>>)) @@ (<<98>> :> IntV(-12)) } }
    \cup
    { [NoCall EXCEPT !.fn = "generateHaozPaySignature", !.strParams = p,
                     !.key = Armored(MarshalPKCS8PrivateKey(ConcSignKey),
                                     BeginPKCS8, EndPKCS8)] :
         p \in ConcStrParams }
    \cup
    { [NoCall EXCEPT !.fn = "verifyHaozPaySignature", !.strParams = p,
                     !.key = Armored(MarshalPKIXPublicKey(PublicKey(ConcSignKey)),
                                     BeginPublic, EndPublic),
                     !.signature = ConcSignature] :
         p \in ConcStrParams }
    \cup
    { [NoCall EXCEPT !.fn = "CancelOrder", !.orderNo = orderNo, !.now = 1699] :
         orderNo \in ReqStrings }
    \cup
    { [NoCall EXCEPT !.fn = "QueryRefund", !.orderNo = <<84, 49>>, !.now = 0] }

IsOperation(call) == call.fn \in { "CancelOrder", "QueryRefund" }

\* the request body the operation builds, lines 63-72 and 136-145
RequestOf(call) ==
    [MerchantNo |-> client.Payment.config.MerchantNo,
     Timestamp |-> call.now,
     BizBody |-> (IF call.fn = "CancelOrder"
                  THEN MarshalCancelPaymentOrderRequest(
                         [OrderNo |-> call.orderNo, CancelReason |-> <<>>])
                  ELSE MarshalQueryRefundRequest([OrderNo |-> call.orderNo])).text,
     Sign |-> <<>>]

\* the map the call's loop ranges over
ParamsOf(call, frame) ==
    IF IsOperation(call) THEN ParamsMap(frame.haozReq)
    ELSE IF call.fn = "GenerateSign" THEN call.params
    ELSE call.strParams

\* the call run from its first line to its return with nothing beside it
Alone(call) ==
    IF call.fn = "GenerateSign"
    THEN Bind(GenerateSign(call.params, call.key,
                           CHOOSE o \in Orders(DOMAIN call.params) : TRUE),
              LAMBDA r : [NoRet EXCEPT !.sign = r.sign, !.err = r.err])
    ELSE IF call.fn = "generateHaozPaySignature"
    THEN Bind(generateHaozPaySignature(call.key, call.strParams,
                                       CHOOSE o \in Orders(DOMAIN call.strParams) : TRUE),
              LAMBDA r : [NoRet EXCEPT !.sign = r.sign, !.err = r.err])
    ELSE IF call.fn = "verifyHaozPaySignature"
    THEN [NoRet EXCEPT !.err =
            verifyHaozPaySignature(call.key, call.strParams, call.signature,
                                   CHOOSE o \in Orders(DOMAIN call.strParams) : TRUE)]
    ELSE Bind(signatureMiddleware(
                client.restyClient.privateKeyPEM,
                [hasBody |-> TRUE, Body |-> RequestOf(call)],
                CHOOSE o \in Orders(DOMAIN ParamsMap(RequestOf(call))) : TRUE),
              LAMBDA mw :
                IF mw.err # "" THEN [NoRet EXCEPT !.err = mw.err]
                ELSE [NoRet EXCEPT !.sign = mw.Body.Sign, !.body = mw.Body])

\* a Client built from a valid configuration, with no operation under way
ClientBuilt ==
    /\ cfg = [BaseURL |-> "https://gate.haozpay.com", MerchantNo |-> <<77, 49>>,
              PrivateKey |-> Armored(MarshalPKCS8PrivateKey(ConcSignKey),
                                     BeginPKCS8, EndPKCS8),
              RetryCount |-> 0]
    /\ pc = "ready"
    /\ client = [isNil |-> FALSE, config |-> cfg,
                 restyClient |-> RestyClient(cfg),
                 Payment |-> NewPaymentService(RestyClient(cfg), cfg)]
    /\ newErr = NilError
    /\ path = ""
    /\ haozReq = NoRequest
    /\ attempt = 0
    /\ wire = <<>>
    /\ opErr = ""
    /\ response = NoResponse
    /\ opRet = NilError

GoInit ==
    /\ ClientBuilt
    /\ goCall \in [Goroutines -> ConcCalls]
    /\ goPc = [g \in Goroutines |-> "start"]
    /\ goKeys = [g \in Goroutines |-> <<>>]
    /\ goIdx = [g \in Goroutines |-> 1]
    /\ goFrame = [g \in Goroutines |-> 0]
    /\ heap = [a \in Addresses |-> EmptyFrame]
    /\ goRet = [g \in Goroutines |-> NoRet]
    /\ goAlone = [g \in Goroutines |-> Alone(goCall[g])]
    /\ overlapped = FALSE

\* another goroutine is between the first and the last step of its call
OtherUnderWay(g) ==
    \E h \in Goroutines \ {g} : goPc[h] \notin { "start", "done" }

\* the call begins: its values are allocated, an operation builds its request
\* object, the keys are taken from the map in some order and sorted
GoStart(g) ==
    /\ goPc[g] = "start"
    /\ goFrame' = [goFrame EXCEPT ![g] = Alloc(g)]
    /\ heap' = [heap EXCEPT ![Alloc(g)] =
                  [sb |-> <<>>, written |-> <<>>,
                   haozReq |-> IF IsOperation(goCall[g]) THEN RequestOf(goCall[g])
                               ELSE @.haozReq]]
    /\ \E iter \in Orders(DOMAIN ParamsOf(goCall[g], heap'[Alloc(g)])) :
          goKeys' = [goKeys EXCEPT ![g] = SortStrings(iter)]
    /\ goIdx' = [goIdx EXCEPT ![g] = 1]
    /\ goPc' = [goPc EXCEPT ![g] = "loop"]
    /\ overlapped' = (overlapped \/ OtherUnderWay(g))
    /\ UNCHANGED <<goCall, goRet, goAlone>>

\* one pass of the loop over the sorted keys, writing to the builder; after
\* the last pass the call goes on
GoLoop(g) ==
    /\ goPc[g] = "loop"
    /\ LET frame == heap[goFrame[g]]
           p == ParamsOf(goCall[g], frame)
           i == goIdx[g]
           keys == goKeys[g]
       IN  IF i > Len(keys)
           THEN /\ goPc' = [goPc EXCEPT ![g] = "finish"]
                /\ UNCHANGED <<heap, goIdx>>
           ELSE /\ heap' = [heap EXCEPT ![goFrame[g]] =
                              IF goCall[g].fn = "GenerateSign"
                              THEN [frame EXCEPT
                                      !.sb = WriteEntry(p, keys[i],
                                               [sb |-> frame.sb,
                                                keys |-> frame.written]).sb,
                                      !.written = WriteEntry(p, keys[i],
                                               [sb |-> frame.sb,
                                                keys |-> frame.written]).keys]
                              ELSE [frame EXCEPT
                                      !.sb = frame.sb \o WriteParam(p, keys, i)]]
                /\ goIdx' = [goIdx EXCEPT ![g] = i + 1]
                /\ UNCHANGED goPc
    /\ overlapped' = (overlapped \/ OtherUnderWay(g))
    /\ UNCHANGED <<goCall, goKeys, goFrame, goRet, goAlone>>

\* the rest of the function once the builder holds the string: the digest,
\* the key parsed from the call's own text, the signature or the check; the
\* middleware of an operation sets Sign in the request object
GoFinish(g) ==
    /\ goPc[g] = "finish"
    /\ LET frame == heap[goFrame[g]]
           call == goCall[g]
       IN  IF call.fn = "GenerateSign"
           THEN \E r \in { signSignString(DropLast(frame.sb), call.key) } :
                   /\ goRet' = [goRet EXCEPT ![g] =
                                  [NoRet EXCEPT !.sign = r.sign, !.err = r.err]]
                   /\ goPc' = [goPc EXCEPT ![g] = "done"]
                   /\ UNCHANGED heap
           ELSE IF call.fn = "generateHaozPaySignature"
           THEN \E r \in { signParamsStr(call.key, frame.sb) } :
                   /\ goRet' = [goRet EXCEPT ![g] =
                                  [NoRet EXCEPT !.sign = r.sign, !.err = r.err]]
                   /\ goPc' = [goPc EXCEPT ![g] = "done"]
                   /\ UNCHANGED heap
           ELSE IF call.fn = "verifyHaozPaySignature"
           THEN /\ goRet' = [goRet EXCEPT ![g] =
                               [NoRet EXCEPT !.err =
                                  verifyParamsStr(call.key, frame.sb, call.signature)]]
                /\ goPc' = [goPc EXCEPT ![g] = "done"]
                /\ UNCHANGED heap
           ELSE \E r \in { signParamsStr(client.restyClient.privateKeyPEM,
                                         frame.sb) } :
                   IF r.err # ""
                   THEN /\ goRet' = [goRet EXCEPT ![g] =
                                       [NoRet EXCEPT !.err = ErrGenerate]]
                        /\ goPc' = [goPc EXCEPT ![g] = "done"]
                        /\ UNCHANGED heap
                   ELSE /\ heap' = [heap EXCEPT ![goFrame[g]].haozReq.Sign = r.sign]
                        /\ goPc' = [goPc EXCEPT ![g] = "send"]
                        /\ UNCHANGED goRet
    /\ overlapped' = (overlapped \/ OtherUnderWay(g))
    /\ UNCHANGED <<goCall, goKeys, goIdx, goFrame, goAlone>>

\* the request object of the operation is serialised and handed to the
\* transport, and the operation returns
GoSend(g) ==
    /\ goPc[g] = "send"
    /\ goRet' = [goRet EXCEPT ![g] =
                   [NoRet EXCEPT !.sign = heap[goFrame[g]].haozReq.Sign,
                                 !.body = heap[goFrame[g]].haozReq]]
    /\ goPc' = [goPc EXCEPT ![g] = "done"]
    /\ overlapped' = (overlapped \/ OtherUnderWay(g))
    /\ UNCHANGED <<goCall, goKeys, goIdx, goFrame, heap, goAlone>>

GoIdle ==
    /\ goCall = <<>>
    /\ goPc = <<>>
    /\ goKeys = <<>>
    /\ goIdx = <<>>
    /\ goFrame = <<>>
    /\ heap = <<>>
    /\ goRet = <<>>
    /\ goAlone = <<>>
    /\ overlapped = FALSE

----------------------------------------------------------------------------
(* Specifications, one for each component *)

vars == <<canonVars, rawVars, pemVars, genVars, stdVars, clientVars, goVars>>

CanonStart == CanonInit /\ RawIdle /\ PemIdle /\ GenIdle /\ StdIdle /\ ClientIdle /\ GoIdle

CanonNext ==
    CallBuildSignString
      /\ UNCHANGED <<rawVars, pemVars, genVars, stdVars, clientVars, goVars>>

SpecCanon == CanonStart /\ [][CanonNext]_vars

RawStart == RawInit /\ CanonIdle /\ PemIdle /\ GenIdle /\ StdIdle /\ ClientIdle /\ GoIdle

RawNext ==
    CallPrivateKeyEncryptRaw
      /\ UNCHANGED <<canonVars, pemVars, genVars, stdVars, clientVars, goVars>>

SpecRaw == RawStart /\ [][RawNext]_vars

PemStart == PemInit /\ CanonIdle /\ RawIdle /\ GenIdle /\ StdIdle /\ ClientIdle /\ GoIdle

PemNext ==
    CallParsePrivateKey
      /\ UNCHANGED <<canonVars, rawVars, genVars, stdVars, clientVars, goVars>>

SpecPem == PemStart /\ [][PemNext]_vars

\* GenerateSign, and privateKeyEncryptRaw called on its own
GenStart ==
    /\ \/ GenInit /\ RawIdle
       \/ RawInit /\ GenIdle
    /\ CanonIdle
    /\ PemIdle
    /\ StdIdle
    /\ ClientIdle /\ GoIdle

GenNext ==
    \/ CallGenerateSign /\ UNCHANGED <<canonVars, pemVars, stdVars, clientVars, goVars>>
    \/ CallPrivateKeyEncryptRaw
         /\ UNCHANGED <<canonVars, pemVars, genVars, stdVars, clientVars, goVars>>

SpecGen == GenStart /\ [][GenNext]_vars

StdStart == StdInit /\ CanonIdle /\ RawIdle /\ PemIdle /\ GenIdle /\ ClientIdle /\ GoIdle

StdNext ==
    \/ CallGenerateHaozPaySignature
         /\ UNCHANGED <<canonVars, rawVars, pemVars, genVars, clientVars, goVars>>
    \/ CallVerifyHaozPaySignature
         /\ UNCHANGED <<canonVars, rawVars, pemVars, genVars, clientVars, goVars>>

SpecStd == StdStart /\ [][StdNext]_vars

ClientStart ==
    ClientInit /\ CanonIdle /\ RawIdle /\ PemIdle /\ GenIdle /\ StdIdle /\ GoIdle

ClientNext ==
    /\ \/ NewClient
       \/ CreateOrder
       \/ CancelOrder
       \/ CreateRefund
       \/ QueryRefund
       \/ CreateWithdraw
       \/ Execute
    /\ UNCHANGED <<canonVars, rawVars, pemVars, genVars, stdVars, goVars>>

SpecClient == ClientStart /\ [][ClientNext]_vars

GoStartState ==
    GoInit /\ CanonIdle /\ RawIdle /\ PemIdle /\ GenIdle /\ StdIdle

GoNext ==
    /\ \E g \in Goroutines :
          \/ GoStart(g)
          \/ GoLoop(g)
          \/ GoFinish(g)
          \/ GoSend(g)
    /\ UNCHANGED <<canonVars, rawVars, pemVars, genVars, stdVars, clientVars>>

SpecGo == GoStartState /\ [][GoNext]_vars

----------------------------------------------------------------------------
(* Claims about the canonical serializer *)

\* C1: BuildSignString is order-independent: whatever order ranging over the
\* map yields, the string returned is the one returned for a fixed reference
\* order of the same map, and the keys written are in strictly ascending
\* byte-wise order.
C1_OrderIndependent ==
    canonDone =>
        /\ signString =
              BuildSignStringRun(params, CHOOSE o \in Orders(DOMAIN params) : TRUE).str
        /\ \A i \in 1..(Len(signKeys) - 1) : StrLess(signKeys[i], signKeys[i + 1])

C1_Witness ==
    /\ canonDone
    /\ Len(signKeys) >= 3
    /\ signKeys[1] = <<66>>
    /\ signKeys[2] = <<97>>

\* the text of a value is empty or white space only
Blank(text) == \A i \in 1..Len(text) : IsSpace(text[i])

\* the keys of p the canonical string keeps
Kept(p) ==
    { k \in DOMAIN p : k # StrSign /\ p[k] # Nil /\ ~Blank(SprintfV(p[k])) }

\* key=value of the keys in ks, least key first, with "&" between them
RECURSIVE JoinAscending(_, _)
JoinAscending(p, ks) ==
    IF ks = {} THEN <<>>
    ELSE LET least == CHOOSE k \in ks : \A o \in ks \ {k} : StrLess(k, o)
             rest == ks \ {least}
         IN  least \o ChEq \o SprintfV(p[least])
               \o (IF rest = {} THEN <<>> ELSE ChAmp \o JoinAscending(p, rest))

\* C2: BuildSignString is exclusion-correct: the string returned holds
\* key=value for exactly the keys other than "sign" whose value is not nil
\* and whose text is not blank, and nothing for any other key;
\* {sign:"x", a:"1", b:"", c:nil} gives "a=1".
C2_ExclusionCorrect ==
    canonDone =>
        /\ { signKeys[i] : i \in 1..Len(signKeys) } = Kept(params)
        /\ signString = JoinAscending(params, Kept(params))
        /\ params = ExampleParams => signString = <<97, 61, 49>>

C2_Witness ==
    /\ canonDone
    /\ params = ExampleParams
    /\ signString = <<97, 61, 49>>

----------------------------------------------------------------------------
(* Claims about the raw private-key transform *)

\* C6: when len(data) <= k-11 the buffer em has exactly k bytes: 0x00, 0x01,
\* then psLen = k-3-len(data) bytes 0xFF, then a single 0x00, then data
\* (189 bytes 0xFF for k = 256 and 64 bytes of data).
C6_PaddingStructure ==
    LET k == Size(rawKey)
        n == Len(rawData)
        em == rawRet.em
        psLen == k - 3 - n
    IN  (rawDone /\ n <= k - 11) =>
            /\ Len(em) = k
            /\ em[1] = 0
            /\ em[2] = 1
            /\ \A i \in 3..(2 + psLen) : em[i] = 255
            /\ em[3 + psLen] = 0
            /\ \A i \in 1..n : em[3 + psLen + i] = rawData[i]
            /\ 3 + psLen + n = k
            /\ (k = 256 /\ n = 64) =>
                  Cardinality({ i \in 1..k : em[i] = 255 /\ i <= 191 }) = 189

C6_Witness ==
    /\ rawDone
    /\ Size(rawKey) = 256
    /\ Len(rawData) = 64
    /\ rawRet.em[191] = 255
    /\ rawRet.em[192] = 0

\* C8: an accepted call returns exactly k bytes: the big-endian bytes of c
\* after as many zero bytes as it takes to fill k, also when c has fewer
\* significant bytes than the modulus.
C8_FixedLength ==
    LET k == Size(rawKey)
        c == rawRet.c
    IN  (rawDone /\ rawRet.err = "") =>
            /\ Len(rawRet.bytes) = k
            /\ Len(c) <= k
            /\ \A i \in 1..(k - Len(c)) : rawRet.bytes[i] = 0
            /\ \A i \in 1..Len(c) : rawRet.bytes[k - Len(c) + i] = c[i]
            /\ c = Exp(SetBytes(rawRet.em), rawKey.D, rawKey.N)

C8_Witness ==
    /\ rawDone
    /\ rawRet.err = ""
    /\ Len(rawRet.c) < Size(rawKey)
    /\ Len(rawRet.c) > 0
    /\ rawRet.bytes[1] = 0

\* C7: privateKeyEncryptRaw returns the too-long error, and no bytes at all,
\* exactly when len(data) > k-11; GenerateSign, whose data is the 64-byte hex
\* digest, then returns the empty string with an error, and returns a
\* signature when the key has at least 75 bytes.
C7_OversizedRejected ==
    LET k == Size(rawKey)
        parsed == parsePrivateKey(genKeyStr)
    IN  /\ (rawDone /\ Len(rawData) > k - 11) =>
              (rawRet.err = TooLong /\ rawRet.bytes = <<>>)
        /\ (rawDone /\ Len(rawData) <= k - 11) => rawRet.err = ""
        /\ (genDone /\ parsed.err = "" /\ 64 > Size(parsed.key) - 11) =>
              /\ genRet.sign = <<>>
              /\ genRet.err = ErrEncrypt
              /\ rawDone
              /\ rawKey = parsed.key
              /\ Len(rawData) = 64
              /\ rawRet.err = TooLong
        /\ (genDone /\ parsed.err = "" /\ 64 <= Size(parsed.key) - 11) =>
              /\ genRet.err = ""
              /\ DecodeString(genRet.sign).bytes = rawRet.bytes
              /\ Len(rawRet.bytes) = Size(parsed.key)

C7_Witness ==
    /\ genDone
    /\ genRet.sign = <<>>
    /\ genRet.err = ErrEncrypt
    /\ rawDone
    /\ Size(rawKey) = 62
    /\ Len(rawData) = 64
    /\ rawRet.err = TooLong
    /\ rawRet.bytes = <<>>

----------------------------------------------------------------------------
(* Claims about the private key texts *)

\* C9: whatever markers, line lengths, line ends and surrounding blank space a
\* key text is written with, parsePrivateKey decodes the bytes of its base64
\* body and returns what it returns for the bare body; and normalizePEMFormat
\* returns its own output unchanged.
C9_FormIndependent ==
    LET body == DecodeString(pemBody)
        bare == parsePrivateKey(pemBody)
    IN  pemDone =>
            /\ body.ok => (pemRet.err # ErrPEM /\ pemRet.der = body.bytes)
            /\ ~body.ok => pemRet.err = ErrPEM
            /\ pemRet.key = bare.key
            /\ pemRet.err = bare.err
            /\ pemRet.der = bare.der
            /\ normalizePEMFormat(pemRet.pem) = pemRet.pem

C9_Witness ==
    /\ pemDone
    /\ HasPrefix(pemText, <<32, 10, 9>> \o BeginPKCS8 \o <<13, 10>>)
    /\ ~Contains(pemText, EndPKCS8)
    /\ ~Contains(pemText, EndPKCS1)
    /\ Len(pemText) > 100
    /\ pemRet.err = ""
    /\ Size(pemRet.key) = 256
    /\ pemRet.der = MarshalPKCS1PrivateKey(pemRet.key)

----------------------------------------------------------------------------
(* Claims about the middleware's signing and verification *)

\* the keys the two texts hold, and whether they are the two halves of a pair
StdPrivate == middlewareParsePrivateKey(stdPriv)
StdPublic == parsePublicKey(stdPub)
StdPair ==
    /\ StdPrivate.ok
    /\ StdPublic.ok
    /\ StdPublic.key = PublicKey(StdPrivate.key)

\* the signature produced was verified for the parameters signed
VerifiedAsSigned ==
    /\ vDone
    /\ vParams = stdParams
    /\ vSignature = stdSign.sign

\* C3, as stated: for every parameter set and every key pair, verifying the
\* signature generated for the parameters returns no error.
C3_RoundTrip ==
    (StdPair /\ VerifiedAsSigned) => (stdSign.err = "" /\ vErr = "")

\* C3, amended: for every parameter set and every key pair whose modulus has
\* at least 62 bytes, signing succeeds and verifying the signature generated
\* for the parameters returns no error; with a shorter modulus signing fails.
C3_RoundTripFrom62 ==
    /\ (stdSigned /\ StdPrivate.ok /\ Size(StdPrivate.key) >= 62) =>
          stdSign.err = ""
    /\ (stdSigned /\ StdPrivate.ok /\ Size(StdPrivate.key) < 62) =>
          (stdSign.err = ErrSign /\ stdSign.sign = <<>>)
    /\ (StdPair /\ VerifiedAsSigned /\ Size(StdPrivate.key) >= 62) => vErr = ""

C3_Witness ==
    /\ StdPair
    /\ VerifiedAsSigned
    /\ Size(StdPrivate.key) = 62
    /\ stdParams = (<<97>> :> <<>>) @@ (<<98>> :> <<50>>)
    /\ stdSign.err = ""
    /\ vErr = ""

\* the parameters verified have the keys of the parameters signed and another
\* value for one of them
ValueChanged ==
    /\ DOMAIN vParams = DOMAIN stdParams
    /\ \E key \in DOMAIN stdParams : vParams[key] # stdParams[key]

\* C4: once parameters are signed, verification with the same key pair fails
\* for parameters with a changed value and for a signature string that
\* differs from the one produced.
C4_TamperDetected ==
    (StdPair /\ stdSign.err = "" /\ vDone
       /\ (ValueChanged \/ vSignature # stdSign.sign)) => vErr # ""

\* C10: verifyHaozPaySignature returns nil exactly when the public key parses,
\* the signature is well-formed base64 and the PKCS#1 v1.5 check of the
\* decoded bytes against the digest of the canonical string succeeds; when the
\* key parses, malformed base64 gives the decode error and a failed check the
\* verification error; there is no other outcome.
C10_VerifyOutcome ==
    vDone =>
      LET decoded == DecodeString(vSignature)
          hash == Sum256(ParamsStr(vParams, CHOOSE o \in Orders(DOMAIN vParams) : TRUE))
          checked == VerifyPKCS1v15(StdPublic.key, hash, decoded.bytes)
      IN  /\ vErr = "" <=> (StdPublic.ok /\ decoded.ok /\ checked)
          /\ vErr \in {"", ErrParsePublic, ErrDecode, ErrVerify}
          /\ vErr = ErrParsePublic <=> ~StdPublic.ok
          /\ vErr = ErrDecode <=> (StdPublic.ok /\ ~decoded.ok)
          /\ vErr = ErrVerify <=> (StdPublic.ok /\ decoded.ok /\ ~checked)

C10_Witness ==
    /\ vDone
    /\ StdPublic.ok
    /\ stdSign.err = ""
    /\ vSignature # stdSign.sign
    /\ ~DecodeString(vSignature).ok
    /\ Len(vSignature) = Len(stdSign.sign)
    /\ vErr = ErrDecode

----------------------------------------------------------------------------
(* Claims about the client *)

\* what generateHaozPaySignature returns for the request body's merchantNo,
\* timestamp and bizBody
ExpectedSign ==
    generateHaozPaySignature(
      cfg.PrivateKey, ParamsMap(haozReq),
      CHOOSE o \in Orders(DOMAIN ParamsMap(haozReq)) : TRUE)

\* C5: every body handed to the transport, on the first attempt and on every
\* retry, of each of the five operations, carries in Sign the signature of
\* its merchantNo, timestamp and bizBody; when signing fails nothing is
\* handed to the transport and the operation returns an error.
C5_NeverUnsigned ==
    attempt >= 1 =>
      /\ ExpectedSign.err = "" =>
            /\ Len(wire) = attempt
            /\ \A i \in 1..Len(wire) :
                  /\ wire[i].path = path
                  /\ wire[i].Body.MerchantNo = cfg.MerchantNo
                  /\ wire[i].Body.Timestamp = haozReq.Timestamp
                  /\ wire[i].Body.BizBody = haozReq.BizBody
                  /\ wire[i].Body.Sign = ExpectedSign.sign
                  /\ wire[i].Body.Sign # <<>>
      /\ ExpectedSign.err # "" =>
            /\ wire = <<>>
            /\ pc = "returned"
            /\ opErr = OpFailure(path)

C5_Witness ==
    /\ pc = "returned"
    /\ path = "/pay-core/account/withdraw"
    /\ Len(wire) = 3
    /\ wire[3].Body.Sign = ExpectedSign.sign
    /\ wire[3].Body.Sign # <<>>
    /\ opErr = ""

----------------------------------------------------------------------------
(* Claims about the separators of the canonical string *)

\* the texts key=value of the keys written, in the order written
SignPairs ==
    [i \in 1..Len(signKeys) |->
       signKeys[i] \o ChEq \o SprintfV(params[signKeys[i]])]

RECURSIVE JoinPairs(_)
JoinPairs(pairs) ==
    IF pairs = <<>> THEN <<>>
    ELSE IF Len(pairs) = 1 THEN pairs[1]
    ELSE pairs[1] \o ChAmp \o JoinPairs(Tail(pairs))

\* the positions of the string that hold "&"
Separators == { i \in 1..Len(signString) : signString[i] = ChAmp[1] }

\* C11: BuildSignString joins the surviving key=value pairs with exactly one
\* "&" between consecutive pairs, with no separator before the first pair or
\* after the last; for an empty parameter set, or one whose entries are all
\* skipped, it returns the empty string.
C11_SeparatorsBetweenPairs ==
    canonDone =>
        /\ signString = JoinPairs(SignPairs)
        /\ signKeys = <<>> => signString = <<>>
        /\ signKeys # <<>> =>
              /\ Cardinality(Separators) = Len(signKeys) - 1
              /\ 1 \notin Separators
              /\ Len(signString) \notin Separators
        /\ (DOMAIN params = {} \/ Kept(params) = {}) => signString = <<>>

C11_Witness ==
    /\ canonDone
    /\ Len(signKeys) = 3
    /\ Cardinality(DOMAIN params) = 4
    /\ Cardinality(Separators) = 2
----------------------------------------------------------------------------
(* Claims about the errors the operations return *)

\* the platform reported a failure: a status of 400 or more, or a business
\* code other than 0
PlatformFailure ==
    /\ pc = "returned"
    /\ response.kind = "response"
    /\ (response.StatusCode >= 400 \/ response.Code # 0)

\* C12: every failure the platform reports to a PaymentService operation, by
\* an HTTP status of 400 or more or by a business code other than 0, is
\* returned as an error that is itself an *SDKError and carries the Code and
\* Message of the platform with the RequestID and StatusCode of the response.
C12_FailureIsSDKError ==
    PlatformFailure =>
        /\ opRet.type = "*SDKError"
        /\ response.json =>
              /\ opRet.Code = response.Code
              /\ opRet.Message = response.Message
              /\ opRet.RequestID = response.RequestID
        /\ opRet.StatusCode = response.StatusCode
----------------------------------------------------------------------------
(* Claims about NewClient *)

\* the message Validate reports for the first required field that is empty
FirstEmptyField ==
    IF cfg.BaseURL = "" THEN "BaseURL is required"
    ELSE IF cfg.MerchantNo = <<>> THEN "MerchantNo is required"
    ELSE "PrivateKey is required"

SomeFieldEmpty ==
    cfg.BaseURL = "" \/ cfg.MerchantNo = <<>> \/ cfg.PrivateKey = <<>>

\* C13: NewClient returns a nil client and a ConfigError exactly when
\* BaseURL, MerchantNo or PrivateKey is empty, reporting the first empty
\* field in that order, and nothing was built; otherwise it returns no error
\* and a client whose GetConfig() is the configuration given and whose
\* Payment service is set up with it.
C13_ValidatedFirst ==
    pc \notin { "new", "unused" } =>
        /\ (client = NilClient /\ newErr.type = "*ConfigError") <=> SomeFieldEmpty
        /\ SomeFieldEmpty =>
              /\ pc = "failed"
              /\ newErr.Message = FirstEmptyField
        /\ ~SomeFieldEmpty =>
              /\ newErr = NilError
              /\ ~client.isNil
              /\ client.config = cfg
              /\ client.Payment.config = cfg
              /\ client.Payment.client = client.restyClient

C13_Witness ==
    /\ pc = "failed"
    /\ cfg.BaseURL # ""
    /\ cfg.MerchantNo = <<>>
    /\ cfg.PrivateKey = <<>>
    /\ client = NilClient
    /\ newErr = ErrInvalidConfig("MerchantNo is required")
----------------------------------------------------------------------------
(* Claims about concurrent calls *)

\* C14: in every interleaving of the steps of concurrent calls of
\* GenerateSign, generateHaozPaySignature, verifyHaozPaySignature and of
\* PaymentService operations on one Client, every call returns what it
\* returns when it runs alone; the calls write only values of their own, and
\* the Client is left as it was.
C14_AsIfAlone ==
    /\ \A g \in Goroutines : goPc[g] = "done" => goRet[g] = goAlone[g]
    /\ \A g \in Goroutines, h \in Goroutines :
          (g # h /\ goPc[g] # "start" /\ goPc[h] # "start")
             => goFrame[g] # goFrame[h]
    /\ ClientBuilt

C14_Witness ==
    /\ overlapped
    /\ goPc = [g \in Goroutines |-> "done"]
    /\ goCall[1].fn = "GenerateSign"
    /\ goCall[2].fn = "CancelOrder"
    /\ goRet[1].err = "" /\ goRet[1].sign # <<>>
    /\ goRet[2].err = "" /\ goRet[2].body.Sign # <<>>
    /\ goRet = goAlone
----------------------------------------------------------------------------
(* Claims about the canonical string of the middleware *)

StringValued(p) == \A k \in DOMAIN p : p[k].t = "string"

\* the map[string]string with the same entries
Strings(p) == [k \in DOMAIN p |-> p[k].v]

\* C15: for every parameter set whose values are all strings, the string
\* generateHaozPaySignature and verifyHaozPaySignature hash is the string
\* BuildSignString returns for the same parameters.
C15_SameCanonicalString ==
    (canonDone /\ StringValued(params)) =>
        ParamsStr(Strings(params), CHOOSE o \in Orders(DOMAIN params) : TRUE)
          = signString
----------------------------------------------------------------------------
(* Claims about GenerateSign against the verifier *)

\* the PEM text of the public key of the private key GenerateSign parsed
GenPublicText ==
    Armored(MarshalPKIXPublicKey(PublicKey(parsePrivateKey(genKeyStr).key)),
            BeginPublic, EndPublic)

\* C16: for every parameter set and valid key pair, the signature
\* GenerateSign returns is accepted by verifyHaozPaySignature with the public
\* key and the same parameters.
C16_GenerateSignVerifies ==
    (genDone /\ genRet.err = "" /\ StringValued(genParams)) =>
        verifyHaozPaySignature(
          GenPublicText, Strings(genParams), genRet.sign,
          CHOOSE o \in Orders(DOMAIN genParams) : TRUE) = ""
----------------------------------------------------------------------------
(* Claims about the length of the padding *)

\* psLen of line 113
PsLen == Size(rawKey) - 3 - Len(rawData)

\* the 0xFF bytes that follow the two leading bytes of the block
LeadingFF(em) ==
    Cardinality({ i \in 3..Len(em) : \A j \in 3..i : em[j] = 255 })

\* C17: whenever privateKeyEncryptRaw returns a signature, whatever the key
\* size and the data length, the block holds psLen = k-3-len(data) >= 8
\* bytes 0xFF; when fewer than 8 would fit, also for the smallest keys, it
\* returns the error and no bytes.
C17_AtLeastEightFF ==
    rawDone =>
        /\ rawRet.err = "" =>
              /\ PsLen >= 8
              /\ LeadingFF(rawRet.em) = PsLen
              /\ rawRet.em[3 + PsLen] = 0
        /\ PsLen < 8 =>
              /\ rawRet.err = TooLong
              /\ rawRet.bytes = <<>>

C17_Witness ==
    /\ rawDone
    /\ Size(rawKey) = 14
    /\ Len(rawData) = 3
    /\ rawRet.err = ""
    /\ PsLen = 8
    /\ LeadingFF(rawRet.em) = 8
----------------------------------------------------------------------------
(* Claims about the padded message as an RSA input *)

\* m of line 123, as its significant bytes
PaddedMessage == SetBytes(rawRet.em)

\* C18: for every key of k bytes and every accepted data, the number m the
\* block encodes is above 0 and, the block starting with 0x00, has fewer
\* significant bytes than the modulus, so m < n; c has at most k bytes, so
\* the offset k - len(cBytes) is not negative; and raising c, or the bytes
\* returned, to the public exponent gives back m.
C18_ValidRSAInput ==
    (rawDone /\ rawRet.err = "") =>
        /\ Len(rawRet.em) = Size(rawKey)
        /\ rawRet.em[1] = 0
        /\ PaddedMessage # <<>>
        /\ Len(PaddedMessage) < Size(rawKey)
        /\ Size(rawKey) - Len(Bytes(rawRet.c)) >= 0
        /\ Exp(rawRet.c, PublicKey(rawKey).E, rawKey.N) = PaddedMessage
        /\ Exp(SetBytes(rawRet.bytes), PublicKey(rawKey).E, rawKey.N) = PaddedMessage

C18_Witness ==
    /\ rawDone
    /\ rawRet.err = ""
    /\ Size(rawKey) = 256
    /\ Len(rawData) = 64
    /\ Len(rawRet.c) = 256
    /\ Len(PaddedMessage) = 255
    /\ Exp(rawRet.c, rawKey.E, rawKey.N) = PaddedMessage

====
